---- MODULE Spec2Model ----
(***************************************************************************)
(* Retail backend: the cart router (add, delete, place-order), the order   *)
(* router (POST /api/orders, PUT /api/orders/status) and the superuser-    *)
(* gated catalog routers, as state machines over the tables they read and  *)
(* write.                                                                  *)
(*                                                                         *)
(* Every `await supabase...` of a handler is one atomic step: the store    *)
(* call takes effect and the handler runs up to its next store call or its *)
(* response. Handlers of different requests interleave between steps.      *)
(***************************************************************************)
EXTENDS Integers, Sequences, FiniteSets, TLC

\* ------------------------------------------------------------------ bounds
MaxCartLines == 2      \* cart rows ever inserted
MaxReqs == 2           \* place-order requests ever received
MaxCatalogReqs == 2    \* catalog requests ever received
MaxDeleteReqs == 2     \* cart delete requests ever received
MaxOrderReqs == 2      \* POST /api/orders requests ever received
MaxStatusReqs == 2     \* PUT /api/orders/status requests ever received
MaxIssueReqs == 2      \* signup, password-reset-OTP and resend-OTP requests ever received
MaxOtpReqs == 2        \* verify-email and reset-password requests ever received
MaxTime == 2           \* clock readings after the first, in units of the OTP lifetime

\* ------------------------------------------------------------ value domains
Undefined == "undefined"             \* a request field that is absent
Users == {"u1", "u2"}
UserInputs == Users \cup {Undefined}
Null == 0                            \* SQL NULL in an id column; 0, null and undefined are all falsy
\* request bodies of POST /api/cart/add, quantity absent (<<>>) or a number: three
\* well-formed ones, and one each without user_id, without product_id, with quantity 0
AddBodies ==
    {[user_id |-> "u1", product_id |-> 5, size_id |-> Null, quantity |-> <<2>>],
     [user_id |-> "u1", product_id |-> 7, size_id |-> 3, quantity |-> <<>>],
     [user_id |-> "u2", product_id |-> 5, size_id |-> Null, quantity |-> <<2>>],
     [user_id |-> Undefined, product_id |-> 5, size_id |-> Null, quantity |-> <<2>>],
     [user_id |-> "u2", product_id |-> Null, size_id |-> Null, quantity |-> <<2>>],
     [user_id |-> "u1", product_id |-> 5, size_id |-> 3, quantity |-> <<0>>]}
\* request bodies of DELETE /api/cart/delete
DeleteBodies ==
    {[user_id |-> "u1", cart_item_id |-> 1],
     [user_id |-> "u2", cart_item_id |-> 1],
     [user_id |-> "u1", cart_item_id |-> 2],
     [user_id |-> Undefined, cart_item_id |-> 1],
     [user_id |-> "u1", cart_item_id |-> Null]}
\* request bodies of POST /api/orders: quantity absent (<<>>) or a number
Item(product_id, size_id, quantity) ==
    [product_id |-> product_id, size_id |-> size_id, quantity |-> quantity]
OrderBodies ==
    {[user_id |-> "u1", items |-> <<Item(5, 3, <<1>>)>>],
     [user_id |-> "u1", items |-> <<Item(5, Null, <<2>>), Item(7, Null, <<1>>)>>],
     [user_id |-> "u1", items |-> <<Item(5, 4, <<1>>)>>],
     [user_id |-> "u2", items |-> <<Item(5, 3, <<1>>), Item(5, Null, <<0>>)>>],
     [user_id |-> "u1", items |-> <<Item(Null, Null, <<1>>)>>],
     [user_id |-> "u2", items |-> <<Item(5, Null, <<>>)>>],
     [user_id |-> Undefined, items |-> <<Item(5, 3, <<1>>)>>],
     [user_id |-> "u1", items |-> <<>>]}
\* request bodies of PUT /api/orders/status: status "" is absent or empty
StatusBodies ==
    {[order_id |-> 1, status |-> "Shipped"],
     [order_id |-> 1, status |-> "Pending"],
     [order_id |-> 2, status |-> "Shipped"],
     [order_id |-> 9, status |-> "Shipped"],
     [order_id |-> Null, status |-> "Shipped"],
     [order_id |-> 1, status |-> ""]}
StoreOutcomes == {"ok", "error", "throw"}  \* rows returned, {error} returned, promise rejected
Reqs == 1..MaxReqs

\* the superusers table: no handler writes it
superusers == {"admin"}
\* what the superusers lookup (.select().eq('id', user_id).single()) can give for a user:
\* the row, an error (no row found is an error of .single()), neither, or a rejection
LookupOutcomes(user_id) ==
    IF user_id \in superusers THEN {"row", "error", "throw"} ELSE {"error", "null", "throw"}

\* request bodies of the catalog routers. name is the category name, size name or product
\* title as a sequence of characters (<<>>: absent or empty); id the category, size or
\* product id; category_ids and size_ids are absent (<<>>) or <<array>>; files the number
\* of uploaded images
Body(route, user_id, id, name, category_ids, size_ids, files) ==
    [route |-> route, user_id |-> user_id, id |-> id, name |-> name,
     category_ids |-> category_ids, size_ids |-> size_ids, files |-> files]
NoBody == Body("none", Undefined, Null, <<>>, <<>>, <<>>, 0)
CatalogBodies ==
    {Body("categories.add", u, Null, <<" ", "a">>, <<>>, <<>>, 0) : u \in {"admin", "u1"}}
    \cup {Body("categories.delete", u, 1, <<>>, <<>>, <<>>, 0) : u \in {"admin", "u1"}}
    \cup {Body("sizes.add", u, Null, <<"M", " ">>, <<>>, <<>>, 0) : u \in {"admin", "u1"}}
    \cup {Body("sizes.delete", u, 1, <<>>, <<>>, <<>>, 0) : u \in {"admin", "u1"}}
    \cup {Body("products.add", u, Null, <<"t">>, <<<<1>>>>, <<<<1>>>>, 1) : u \in {"admin", "u1"}}
    \cup {Body("products.update", u, 1, <<"v">>, <<<<1, 2>>>>, <<<<>>>>, 0) : u \in {"admin", "u1"}}
    \cup {Body("categories.add", "admin", Null, <<" ">>, <<>>, <<>>, 0),
          Body("categories.add", Undefined, Null, <<"a">>, <<>>, <<>>, 0),
          Body("sizes.delete", "admin", Null, <<>>, <<>>, <<>>, 0),
          Body("products.add", "admin", Null, <<"t">>, <<>>, <<>>, 1),
          Body("products.add", "admin", Null, <<"t">>, <<<<1>>>>, <<>>, 0),
          Body("products.add", Undefined, Null, <<"t">>, <<<<1>>>>, <<>>, 1),
          Body("products.update", "admin", 1, <<>>, <<>>, <<<<1>>>>, 0),
          Body("products.update", "admin", Null, <<"v">>, <<>>, <<>>, 0)}
\* PUT /api/products/update of product 5 by the administrator: a new title with the
\* category list [1], the category list [2], the size list [3], the size list [4]
UpdateBodies ==
    {Body("products.update", "admin", 5, <<"v">>, <<<<1>>>>, <<>>, 0),
     Body("products.update", "admin", 5, <<>>, <<<<2>>>>, <<>>, 0),
     Body("products.update", "admin", 5, <<>>, <<>>, <<<<3>>>>, 0),
     Body("products.update", "admin", 5, <<>>, <<>>, <<<<4>>>>, 0)}
CatalogReqs == 1..MaxCatalogReqs
DeleteReqs == 1..MaxDeleteReqs
OrderReqs == 1..MaxOrderReqs
StatusReqs == 1..MaxStatusReqs
IssueReqs == 1..MaxIssueReqs
OtpReqs == 1..MaxOtpReqs

VARIABLES cart, orders, orderitems, nextCartId, nextOrderId, nextItemId, req,
          categories, sizes, products, product_categories, product_sizes,
          nextCategoryId, nextSizeId, nextProductId, creq,
          lastAdd, dreq, oreq, sreq,
          authUsers, otps, nextUserId, nextOtpId, now, ireq, areq, lastLogin

\* the cart router's tables, serial ids and requests
\* the response to the last POST /api/cart/add, and the DELETE /api/cart/delete requests
cartCrud == <<lastAdd, dreq>>
cartVars == <<cart, orders, orderitems, nextCartId, nextOrderId, nextItemId, req, cartCrud>>
\* the catalog tables
catalog == <<categories, sizes, products, product_categories, product_sizes>>
\* the catalog routers' tables, serial ids and requests
catalogVars == <<catalog, nextCategoryId, nextSizeId, nextProductId, creq>>

\* the order router's requests: POST /api/orders and PUT /api/orders/status
orderVars == <<oreq, sreq>>

\* the auth provider's users, the otps table, the clock, the requests of the auth handlers
\* and the response to the last login
authVars == <<authUsers, otps, nextUserId, nextOtpId, now, ireq, areq, lastLogin>>

vars == <<cartVars, catalogVars, orderVars, authVars>>

\* ------------------------------------------------------------------ helpers
RECURSIVE SortById(_)
\* rows of a table as the array a select returns, in insertion (id) order
SortById(rows) ==
    IF rows = {} THEN <<>>
    ELSE LET first == CHOOSE x \in rows : \A y \in rows : x.id <= y.id
         IN <<first>> \o SortById(rows \ {first})

\* supabase.from('cart').select('*').eq('user_id', user_id)
SelectCart(user_id) == SortById({l \in cart : l.user_id = user_id})

\* mutant: the map forgets the line's quantity
orderItems_DropQuantity(orderId, cartItems) ==
    [i \in 1..Len(cartItems) |->
        [order_id |-> orderId,
         product_id |-> cartItems[i].product_id,
         size_id |-> cartItems[i].size_id,
         quantity |-> 1]]

\* mutant: the map attaches every item to the first order instead of the run's own
orderItems_FirstOrder(orderId, cartItems) ==
    [i \in 1..Len(cartItems) |->
        [order_id |-> 1,
         product_id |-> cartItems[i].product_id,
         size_id |-> cartItems[i].size_id,
         quantity |-> cartItems[i].quantity]]

\* cartItems.map(item => ({order_id, product_id, size_id, quantity}))
orderItems(orderId, cartItems) ==
    [i \in 1..Len(cartItems) |->
        [order_id |-> orderId,
         product_id |-> cartItems[i].product_id,
         size_id |-> cartItems[i].size_id,
         quantity |-> cartItems[i].quantity]]

\* insert(rows).select(): the rows as stored, with serial ids from firstId
Inserted(rows, firstId) ==
    [i \in 1..Len(rows) |->
        [id |-> firstId + i - 1,
         order_id |-> rows[i].order_id,
         product_id |-> rows[i].product_id,
         size_id |-> rows[i].size_id,
         quantity |-> rows[i].quantity]]

Range(s) == {s[i] : i \in 1..Len(s)}

\* mutant: the insert replaces the rows of the table
InsertedInto_Replacing(table, rows) == Range(rows)

\* from(table).insert(rows): the rows are added, the rows already there stay as they are
InsertedInto(table, rows) == table \cup Range(rows)

\* --------------------------------------------------------------------- Init
IdleReq ==
    [pc |-> "idle", user_id |-> Undefined, cartItems |-> <<>>, cartError |-> FALSE,
     orderId |-> Null, orderError |-> FALSE, orderItemsData |-> <<>>,
     orderItemsError |-> FALSE, clearCartError |-> FALSE, err |-> FALSE,
     status |-> 0, calls |-> <<>>]

\* no POST /api/cart/add answered yet
NoAdd ==
    [body |-> [user_id |-> Undefined, product_id |-> Null, size_id |-> Null,
               quantity |-> <<>>],
     status |-> 0]

\* a DELETE /api/cart/delete request: its body, the line the existence check returned
IdleDeleteReq ==
    [pc |-> "idle", user_id |-> Undefined, cart_item_id |-> Null, existingItem |-> <<>>,
     err |-> FALSE, status |-> 0, calls |-> <<>>]

\* a POST /api/orders request: its body, orderId, the index of the item the loop is at and
\* the items formatted so far
IdleOrderReq ==
    [pc |-> "idle", user_id |-> Undefined, items |-> <<>>, orderId |-> Null, i |-> 1,
     formattedItems |-> <<>>, err |-> FALSE, status |-> 0, calls |-> <<>>]

\* a PUT /api/orders/status request
IdleStatusReq ==
    [pc |-> "idle", order_id |-> Null, newStatus |-> "", updatedOrder |-> <<>>,
     err |-> FALSE, status |-> 0, calls |-> <<>>]

IdleCatalogReq ==
    [pc |-> "idle", body |-> NoBody, lookup |-> "none", checked |-> FALSE, isSuper |-> FALSE,
     imageUrls |-> 0, productId |-> Null, err |-> FALSE, status |-> 0, calls |-> <<>>]

\* ------------------------------------------------------------ auth: domains
\* email strings, as sequences of characters: two spellings of one mailbox and another
Emails == {<<"A", "@">>, <<"a", "@">>, <<"b", "@">>}
LowerChar(c) == CASE c = "A" -> "a" [] c = "B" -> "b" [] OTHER -> c
\* String.prototype.toLowerCase
ToLowerCase(s) == [i \in 1..Len(s) |-> LowerChar(s[i])]
Codes == {"111111", "222222"}        \* what generateOTP returns
Passwords == {"p1", "p2"}
Purposes == {"email_verification", "password_reset"}
OtpLifetime == 1                     \* 10 * 60 * 1000 ms, the unit of the clock

\* the locals of signup, requestOTPForPasswordReset and resendOTP
IdleIssueReq ==
    [pc |-> "idle", kind |-> "none", email |-> <<>>, purpose |-> "", otp |-> "",
     expiresAt |-> 0, err |-> FALSE, status |-> 0, calls |-> <<>>]

\* the locals of verifyEmailWithOTP and resetPasswordWithOTP
IdleOtpReq ==
    [pc |-> "idle", kind |-> "none", email |-> <<>>, otp |-> "", new_password |-> "",
     otpRecord |-> <<>>, user |-> Null, err |-> FALSE, status |-> 0, calls |-> <<>>]

\* no login answered yet
NoLogin == [email |-> <<>>, password |-> "", accepted |-> FALSE, status |-> 0, token |-> Null]

\* no user has signed up, no OTP is stored, no auth request was received
NoAuth ==
    /\ authUsers = {}
    /\ otps = {}
    /\ nextUserId = 1
    /\ nextOtpId = 1
    /\ now = 0
    /\ ireq = [r \in IssueReqs |-> IdleIssueReq]
    /\ areq = [r \in OtpReqs |-> IdleOtpReq]
    /\ lastLogin = NoLogin

\* what Init says of the cart and order routers' requests
NoRequests ==
    /\ lastAdd = NoAdd
    /\ dreq = [r \in DeleteReqs |-> IdleDeleteReq]
    /\ oreq = [r \in OrderReqs |-> IdleOrderReq]
    /\ sreq = [r \in StatusReqs |-> IdleStatusReq]

Init ==
    /\ NoRequests
    /\ NoAuth
    /\ cart = {}
    /\ orders = {}
    /\ orderitems = {}
    /\ nextCartId = 1
    /\ nextOrderId = 1
    /\ nextItemId = 1
    /\ req = [r \in Reqs |-> IdleReq]
    /\ categories = {}
    /\ sizes = {}
    /\ products = {}
    /\ product_categories = {}
    /\ product_sizes = {}
    /\ nextCategoryId = 1
    /\ nextSizeId = 1
    /\ nextProductId = 1
    /\ creq = [r \in CatalogReqs |-> IdleCatalogReq]

\* a store that holds product 5, offered in size 3
Stocked ==
    /\ categories = {[id |-> 1, name |-> <<"a">>]}
    /\ sizes = {[id |-> 3, size_name |-> <<"M">>]}
    /\ products = {[id |-> 5, title |-> <<"t">>]}
    /\ product_categories = {[product_id |-> 5, category_id |-> 1]}
    /\ product_sizes = {[product_id |-> 5, size_id |-> 3]}
    /\ nextCategoryId = 2
    /\ nextSizeId = 4
    /\ nextProductId = 6

\* a store that holds product 5 in category 1 and size 3, and a second category and size
Linked ==
    /\ categories = {[id |-> 1, name |-> <<"a">>], [id |-> 2, name |-> <<"b">>]}
    /\ sizes = {[id |-> 3, size_name |-> <<"M">>], [id |-> 4, size_name |-> <<"L">>]}
    /\ products = {[id |-> 5, title |-> <<"t">>]}
    /\ product_categories = {[product_id |-> 5, category_id |-> 1]}
    /\ product_sizes = {[product_id |-> 5, size_id |-> 3]}
    /\ nextCategoryId = 3
    /\ nextSizeId = 5
    /\ nextProductId = 6

InitLinked ==
    /\ NoRequests
    /\ NoAuth
    /\ cart = {}
    /\ orders = {}
    /\ orderitems = {}
    /\ nextCartId = 1
    /\ nextOrderId = 1
    /\ nextItemId = 1
    /\ req = [r \in Reqs |-> IdleReq]
    /\ Linked
    /\ creq = [r \in CatalogReqs |-> IdleCatalogReq]

\* no cart line and no order yet, over the stocked catalog
InitStocked ==
    /\ NoRequests
    /\ NoAuth
    /\ cart = {}
    /\ orders = {}
    /\ orderitems = {}
    /\ nextCartId = 1
    /\ nextOrderId = 1
    /\ nextItemId = 1
    /\ req = [r \in Reqs |-> IdleReq]
    /\ Stocked
    /\ creq = [r \in CatalogReqs |-> IdleCatalogReq]

\* res.status(s).json(body) ends the handler; the record keeps what the handler held
Respond(s, fields) == [fields EXCEPT !.pc = "done", !.status = s]

\* catch (err): the store call rejected
Caught(fields) == Respond(500, [fields EXCEPT !.err = TRUE])

\* ------------------------------------------------------ POST /api/cart/add
\* quantity || 1
QuantityOrOne(quantity) == IF quantity = <<>> \/ quantity[1] = 0 THEN 1 ELSE quantity[1]

\* mutant: the quantity is not validated
AddValid_AnyQuantity(user_id, product_id, quantity) ==
    ~ (user_id = Undefined \/ product_id = Null)

\* mutant: products must hold the product
AddValid_KnownProduct(user_id, product_id, quantity) ==
    /\ ~ (user_id = Undefined \/ product_id = Null \/ (quantity # <<>> /\ quantity[1] <= 0))
    /\ \E p \in products : p.id = product_id

AddValid(user_id, product_id, quantity) ==
    ~ (user_id = Undefined \/ product_id = Null \/ (quantity # <<>> /\ quantity[1] <= 0))

\* mutant: a line of the same user, product and size absorbs the quantity
InsertedCart_Upsert(user_id, product_id, size_id, quantity) ==
    IF \E l \in cart : l.user_id = user_id /\ l.product_id = product_id /\ l.size_id = size_id
    THEN {IF l.user_id = user_id /\ l.product_id = product_id /\ l.size_id = size_id
          THEN [l EXCEPT !.quantity = @ + QuantityOrOne(quantity)] ELSE l : l \in cart}
    ELSE cart \cup {[id |-> nextCartId, user_id |-> user_id, product_id |-> product_id,
                     size_id |-> size_id, quantity |-> QuantityOrOne(quantity)]}

\* insert([{ user_id, product_id, size_id: size_id || null, quantity: quantity || 1 }])
InsertedCart(user_id, product_id, size_id, quantity) ==
    cart \cup {[id |-> nextCartId, user_id |-> user_id, product_id |-> product_id,
                size_id |-> size_id, quantity |-> QuantityOrOne(quantity)]}

\* the status of the response: 400 before the insert, 500 when the insert fails, else 201
AddStatus(user_id, product_id, quantity, outcome) ==
    IF ~ AddValid(user_id, product_id, quantity) THEN 400
    ELSE IF outcome = "ok" THEN 201 ELSE 500

AddToCart(user_id, product_id, size_id, quantity, outcome) ==
    /\ nextCartId <= MaxCartLines
    /\ lastAdd' = [body |-> [user_id |-> user_id, product_id |-> product_id,
                             size_id |-> size_id, quantity |-> quantity],
                   status |-> AddStatus(user_id, product_id, quantity, outcome)]
    /\ IF AddValid(user_id, product_id, quantity) /\ outcome = "ok"
       THEN /\ cart' = InsertedCart(user_id, product_id, size_id, quantity)
            /\ nextCartId' = nextCartId + 1
       ELSE UNCHANGED <<cart, nextCartId>>
    /\ UNCHANGED <<orders, orderitems, nextOrderId, nextItemId, req, dreq, catalogVars, orderVars>>
    /\ UNCHANGED authVars

\* ---------------------------------------------------- DELETE /api/cart/delete
\* mutant: the existence check has no user_id filter
FindCartLine_AnyOwner(user_id, cart_item_id) == {l \in cart : l.id = cart_item_id}

\* from('cart').select('*').eq('id', cart_item_id).eq('user_id', user_id)
FindCartLine(user_id, cart_item_id) ==
    {l \in cart : l.id = cart_item_id /\ l.user_id = user_id}

\* after the existence check: 404 on an error or no row, else on to the delete
AfterLineSelect(me, outcome, found) ==
    CASE outcome = "throw" -> Caught(me)
      [] outcome = "error" \/ found = {} -> Respond(404, me)
      [] OTHER -> [me EXCEPT !.existingItem = <<CHOOSE l \in found : TRUE>>,
                             !.pc = "cart.delete"]

\* the request arrives: user_id and cart_item_id are validated, then the line is looked up
DeleteRequest(r, b, outcome) ==
    /\ dreq[r].pc = "idle"
    /\ \A q \in DeleteReqs : q < r => dreq[q].pc # "idle"
    /\ LET in == [dreq[r] EXCEPT !.user_id = b.user_id, !.cart_item_id = b.cart_item_id]
           me == [in EXCEPT !.calls = Append(@, "cart.select")]
       IN dreq' = [dreq EXCEPT ![r] =
                     IF b.user_id = Undefined \/ b.cart_item_id = Null
                     THEN Respond(400, in)
                     ELSE AfterLineSelect(me, outcome,
                                          FindCartLine(b.user_id, b.cart_item_id))]
    /\ UNCHANGED <<cart, orders, orderitems, nextCartId, nextOrderId, nextItemId, req,
                   lastAdd, catalogVars, orderVars>>
    /\ UNCHANGED authVars

\* from('cart').delete().eq('id', cart_item_id).eq('user_id', user_id): the rows that stay
RemainingCart(user_id, cart_item_id) ==
    {l \in cart : ~ (l.id = cart_item_id /\ l.user_id = user_id)}

\* the delete: 500 on an error, else 200 with the line the check returned
DeleteCartLine(r, outcome) ==
    /\ dreq[r].pc = "cart.delete"
    /\ LET me == [dreq[r] EXCEPT !.calls = Append(@, "cart.delete")]
       IN /\ dreq' = [dreq EXCEPT ![r] =
                        CASE outcome = "throw" -> Caught(me)
                          [] outcome = "error" -> Respond(500, me)
                          [] OTHER -> Respond(200, me)]
          /\ IF outcome = "ok"
             THEN cart' = RemainingCart(me.user_id, me.cart_item_id)
             ELSE UNCHANGED cart
    /\ UNCHANGED <<orders, orderitems, nextCartId, nextOrderId, nextItemId, req,
                   lastAdd, catalogVars, orderVars>>
    /\ UNCHANGED authVars

\* ----------------------------------------------- POST /api/cart/place-order
\* mutant: the cart read does not gate the order insert
NothingToOrder_Never(cartError, cartItems) == FALSE

\* mutant: the length test is missing
NothingToOrder_ErrorOnly(cartError, cartItems) == cartError

\* if (cartError || !cartItems || cartItems.length === 0)
NothingToOrder(cartError, cartItems) == cartError \/ Len(cartItems) = 0

\* after step 1 (cart select): 400 on an error or an empty cart, else on to the order insert
AfterCartSelect(me, outcome, rows) ==
    CASE outcome = "throw" -> Caught(me)
      [] outcome = "error" ->
           IF NothingToOrder(TRUE, <<>>)
           THEN Respond(400, [me EXCEPT !.cartError = TRUE])
           ELSE [me EXCEPT !.cartError = TRUE, !.pc = "orders.insert"]
      [] OTHER ->
           IF NothingToOrder(FALSE, rows)
           THEN Respond(400, me)
           ELSE [me EXCEPT !.cartItems = rows, !.pc = "orders.insert"]

\* the request arrives: user_id is validated, then step 1 fetches the user's cart lines
PlaceOrder(r, user_id, outcome) ==
    /\ req[r].pc = "idle"
    /\ \A q \in Reqs : q < r => req[q].pc # "idle"
    /\ LET in == [req[r] EXCEPT !.user_id = user_id]
           me == [in EXCEPT !.calls = Append(@, "cart.select")]
       IN req' = [req EXCEPT ![r] =
                    IF user_id = Undefined
                    THEN Respond(400, in)
                    ELSE AfterCartSelect(me, outcome, SelectCart(user_id))]
    /\ UNCHANGED <<cart, orders, orderitems, nextCartId, nextOrderId, nextItemId, cartCrud, catalogVars, orderVars>>
    /\ UNCHANGED authVars

\* step 2: insert the order row with status 'Pending'
NewOrder(id, user_id) == [id |-> id, user_id |-> user_id, order_status |-> "Pending"]

\* mutant: a failed order insert is issued a second time
AfterOrderInsert_RetryOnce(me, outcome, id) ==
    CASE outcome = "throw" -> Caught(me)
      [] outcome = "error" ->
           IF Len(SelectSeq(me.calls, LAMBDA c : c = "orders.insert")) = 1
           THEN me
           ELSE Respond(500, [me EXCEPT !.orderError = TRUE])
      [] OTHER -> [me EXCEPT !.orderId = id, !.pc = "orderitems.insert"]

\* mutant: the return after the order error is missing
AfterOrderInsert_NoReturn(me, outcome, id) ==
    CASE outcome = "throw" -> Caught(me)
      [] outcome = "error" -> [me EXCEPT !.orderError = TRUE, !.pc = "orderitems.insert"]
      [] OTHER -> [me EXCEPT !.orderId = id, !.pc = "orderitems.insert"]

\* after step 2: 500 on an error, else orderId = orderData.id and on to the items insert
AfterOrderInsert(me, outcome, id) ==
    CASE outcome = "throw" -> Caught(me)
      [] outcome = "error" -> Respond(500, [me EXCEPT !.orderError = TRUE])
      [] OTHER -> [me EXCEPT !.orderId = id, !.pc = "orderitems.insert"]

CreateOrder(r, outcome) ==
    /\ req[r].pc = "orders.insert"
    /\ LET me == [req[r] EXCEPT !.calls = Append(@, "orders.insert")]
       IN /\ req' = [req EXCEPT ![r] = AfterOrderInsert(me, outcome, nextOrderId)]
          /\ IF outcome = "ok"
             THEN /\ orders' = orders \cup {NewOrder(nextOrderId, me.user_id)}
                  /\ nextOrderId' = nextOrderId + 1
             ELSE UNCHANGED <<orders, nextOrderId>>
    /\ UNCHANGED <<cart, orderitems, nextCartId, nextItemId, cartCrud, catalogVars, orderVars>>
    /\ UNCHANGED authVars

\* mutant: the return after the order-items error is missing
AfterOrderItemsInsert_NoReturn(me, outcome, rows) ==
    CASE outcome = "throw" -> Caught(me)
      [] outcome = "error" -> [me EXCEPT !.orderItemsError = TRUE, !.pc = "cart.delete"]
      [] OTHER -> [me EXCEPT !.orderItemsData = rows, !.pc = "cart.delete"]

\* after step 3: 500 on an error, else on to the cart delete
AfterOrderItemsInsert(me, outcome, rows) ==
    CASE outcome = "throw" -> Caught(me)
      [] outcome = "error" -> Respond(500, [me EXCEPT !.orderItemsError = TRUE])
      [] OTHER -> [me EXCEPT !.orderItemsData = rows, !.pc = "cart.delete"]

\* step 3: batch-insert one order item per cart line read in step 1
InsertOrderItems(r, outcome) ==
    /\ req[r].pc = "orderitems.insert"
    /\ LET me == [req[r] EXCEPT !.calls = Append(@, "orderitems.insert")]
           rows == Inserted(orderItems(me.orderId, me.cartItems), nextItemId)
       IN /\ req' = [req EXCEPT ![r] = AfterOrderItemsInsert(me, outcome, rows)]
          /\ IF outcome = "ok"
             THEN /\ orderitems' = InsertedInto(orderitems, rows)
                  /\ nextItemId' = nextItemId + Len(rows)
             ELSE UNCHANGED <<orderitems, nextItemId>>
    /\ UNCHANGED <<cart, orders, nextCartId, nextOrderId, cartCrud, catalogVars, orderVars>>
    /\ UNCHANGED authVars

\* mutant: the filter of the delete is inverted
ClearedCart_Others(user_id) == {l \in cart : l.user_id = user_id}

\* mutant: the delete has no user_id filter
ClearedCart_All(user_id) == {}

\* supabase.from('cart').delete().eq('user_id', user_id): the rows that stay
ClearedCart(user_id) == {l \in cart : l.user_id # user_id}

\* mutant: the cart delete's error is ignored
AfterCartDelete_Swallow(me, outcome) ==
    CASE outcome = "throw" -> Caught(me)
      [] outcome = "error" -> Respond(201, [me EXCEPT !.clearCartError = TRUE])
      [] OTHER -> Respond(201, me)

\* after step 4: 500 on an error, else 201 with the order and its items
AfterCartDelete(me, outcome) ==
    CASE outcome = "throw" -> Caught(me)
      [] outcome = "error" -> Respond(500, [me EXCEPT !.clearCartError = TRUE])
      [] OTHER -> Respond(201, me)

\* step 4: delete every cart line of the user
ClearCart(r, outcome) ==
    /\ req[r].pc = "cart.delete"
    /\ LET me == [req[r] EXCEPT !.calls = Append(@, "cart.delete")]
       IN /\ req' = [req EXCEPT ![r] = AfterCartDelete(me, outcome)]
          /\ IF outcome = "ok"
             THEN cart' = ClearedCart(me.user_id)
             ELSE UNCHANGED cart
    /\ UNCHANGED <<orders, orderitems, nextCartId, nextOrderId, nextItemId, cartCrud, catalogVars, orderVars>>
    /\ UNCHANGED authVars

\* ========================================================= POST /api/orders
\* mutant: the order row is inserted as already shipped
OrderRow_Shipped(id, user_id) == [id |-> id, user_id |-> user_id, order_status |-> "Shipped"]

\* insert([{ user_id, order_status: 'Pending', created_at }])
OrderRow(id, user_id) == [id |-> id, user_id |-> user_id, order_status |-> "Pending"]

\* if (!item.product_id || !item.quantity || item.quantity <= 0)
ItemInvalid(item) ==
    \/ item.product_id = Null
    \/ item.quantity = <<>>
    \/ item.quantity[1] = 0
    \/ item.quantity[1] <= 0

\* the for loop over items from index me.i, up to its next store call: past the last item
\* on to the items insert, 400 at an invalid item, else the product lookup of item me.i
ItemLoop(me) ==
    IF me.i > Len(me.items) THEN [me EXCEPT !.pc = "orderitems.insert"]
    ELSE IF ItemInvalid(me.items[me.i]) THEN Respond(400, me)
    ELSE [me EXCEPT !.pc = "products.select"]

\* mutant: the pushed item names the first order instead of the request's own
Pushed_FirstOrder(me) ==
    [me EXCEPT !.formattedItems =
                  Append(@, [order_id |-> 1,
                             product_id |-> me.items[me.i].product_id,
                             size_id |-> me.items[me.i].size_id,
                             quantity |-> me.items[me.i].quantity[1]]),
               !.i = @ + 1]

\* formattedItems.push({ order_id, product_id, size_id: size_id || null, quantity })
Pushed(me) ==
    [me EXCEPT !.formattedItems =
                  Append(@, [order_id |-> me.orderId,
                             product_id |-> me.items[me.i].product_id,
                             size_id |-> me.items[me.i].size_id,
                             quantity |-> me.items[me.i].quantity[1]]),
               !.i = @ + 1]

\* the request arrives: user_id and items are validated, then the order row is inserted
\* and the loop over the items starts
OrderRequest(r, b, outcome) ==
    /\ oreq[r].pc = "idle"
    /\ \A q \in OrderReqs : q < r => oreq[q].pc # "idle"
    /\ LET in == [oreq[r] EXCEPT !.user_id = b.user_id, !.items = b.items]
           me == [in EXCEPT !.calls = Append(@, "orders.insert")]
           rejected == b.user_id = Undefined \/ Len(b.items) = 0
       IN /\ oreq' = [oreq EXCEPT ![r] =
                        IF rejected THEN Respond(400, in)
                        ELSE CASE outcome = "throw" -> Caught(me)
                               [] outcome = "error" -> Respond(500, me)
                               [] OTHER -> ItemLoop([me EXCEPT !.orderId = nextOrderId])]
          /\ IF ~ rejected /\ outcome = "ok"
             THEN /\ orders' = orders \cup {OrderRow(nextOrderId, b.user_id)}
                  /\ nextOrderId' = nextOrderId + 1
             ELSE UNCHANGED <<orders, nextOrderId>>
    /\ UNCHANGED <<cart, orderitems, nextCartId, nextItemId, req, cartCrud, catalogVars, sreq>>
    /\ UNCHANGED authVars

\* mutant: the result of the product lookup is not tested
AfterProductSelect_Lenient(me, outcome, found) ==
    CASE outcome = "throw" -> Caught(me)
      [] OTHER -> IF me.items[me.i].size_id # Null
                  THEN [me EXCEPT !.pc = "product_sizes.select"]
                  ELSE ItemLoop(Pushed(me))

\* after the product lookup of item me.i: 404 on an error or no row; else the size lookup
\* when the item has a size_id, else the item is formatted and the loop goes on
AfterProductSelect(me, outcome, found) ==
    CASE outcome = "throw" -> Caught(me)
      [] outcome = "error" \/ ~ found -> Respond(404, me)
      [] OTHER -> IF me.items[me.i].size_id # Null
                  THEN [me EXCEPT !.pc = "product_sizes.select"]
                  ELSE ItemLoop(Pushed(me))

\* from('products').select('id, title').eq('id', item.product_id).single()
SelectProduct(r, outcome) ==
    /\ oreq[r].pc = "products.select"
    /\ LET me == [oreq[r] EXCEPT !.calls = Append(@, "products.select")]
           found == \E p \in products : p.id = me.items[me.i].product_id
       IN oreq' = [oreq EXCEPT ![r] = AfterProductSelect(me, outcome, found)]
    /\ UNCHANGED <<cartVars, catalogVars, sreq>>
    /\ UNCHANGED authVars

\* after the size lookup: 400 on an error or no row, else the item is formatted
AfterSizeSelect(me, outcome, found) ==
    CASE outcome = "throw" -> Caught(me)
      [] outcome = "error" \/ ~ found -> Respond(400, me)
      [] OTHER -> ItemLoop(Pushed(me))

\* from('product_sizes').select('size_id').eq('product_id', ..).eq('size_id', ..).single()
SelectProductSize(r, outcome) ==
    /\ oreq[r].pc = "product_sizes.select"
    /\ LET me == [oreq[r] EXCEPT !.calls = Append(@, "product_sizes.select")]
           found == [product_id |-> me.items[me.i].product_id,
                     size_id |-> me.items[me.i].size_id] \in product_sizes
       IN oreq' = [oreq EXCEPT ![r] = AfterSizeSelect(me, outcome, found)]
    /\ UNCHANGED <<cartVars, catalogVars, sreq>>
    /\ UNCHANGED authVars

\* from('orderitems').insert(formattedItems): 500 on an error, else 201
InsertItems(r, outcome) ==
    /\ oreq[r].pc = "orderitems.insert"
    /\ LET me == [oreq[r] EXCEPT !.calls = Append(@, "orderitems.insert")]
           rows == Inserted(me.formattedItems, nextItemId)
       IN /\ oreq' = [oreq EXCEPT ![r] =
                        CASE outcome = "throw" -> Caught(me)
                          [] outcome = "error" -> Respond(500, me)
                          [] OTHER -> Respond(201, me)]
          /\ IF outcome = "ok"
             THEN /\ orderitems' = InsertedInto(orderitems, rows)
                  /\ nextItemId' = nextItemId + Len(rows)
             ELSE UNCHANGED <<orderitems, nextItemId>>
    /\ UNCHANGED <<cart, orders, nextCartId, nextOrderId, req, cartCrud, catalogVars, sreq>>
    /\ UNCHANGED authVars

\* ==================================================== PUT /api/orders/status
\* mutant: only a pending order can change its status
UpdatedOrders_FromPending(order_id, status) ==
    {IF o.id = order_id /\ o.order_status = "Pending"
     THEN [o EXCEPT !.order_status = status] ELSE o : o \in orders}

\* from('orders').update({ order_status: status }).eq('id', order_id)
UpdatedOrders(order_id, status) ==
    {IF o.id = order_id THEN [o EXCEPT !.order_status = status] ELSE o : o \in orders}

\* the whole handler: 400 without order_id or status; the update; 500 on an error, 404
\* when no row came back, else 200
UpdateOrderStatus(r, b, outcome) ==
    /\ sreq[r].pc = "idle"
    /\ \A q \in StatusReqs : q < r => sreq[q].pc # "idle"
    /\ LET in == [sreq[r] EXCEPT !.order_id = b.order_id, !.newStatus = b.status]
           me == [in EXCEPT !.calls = Append(@, "orders.update")]
           rejected == b.order_id = Null \/ b.status = ""
           rows == {o \in UpdatedOrders(b.order_id, b.status) : o.id = b.order_id}
       IN /\ sreq' = [sreq EXCEPT ![r] =
                        IF rejected THEN Respond(400, in)
                        ELSE CASE outcome = "throw" -> Caught(me)
                               [] outcome = "error" -> Respond(500, me)
                               [] rows = {} -> Respond(404, me)
                               [] OTHER -> Respond(200, [me EXCEPT !.updatedOrder =
                                                           <<CHOOSE o \in rows : TRUE>>])]
          /\ IF ~ rejected /\ outcome = "ok"
             THEN orders' = UpdatedOrders(b.order_id, b.status)
             ELSE UNCHANGED orders
    /\ UNCHANGED <<cart, orderitems, nextCartId, nextOrderId, nextItemId, req, cartCrud,
                   catalogVars, oreq>>
    /\ UNCHANGED authVars

\* ============================================================ catalog routers
RECURSIVE TrimStart(_), TrimEnd(_)
TrimStart(s) == IF s # <<>> /\ Head(s) = " " THEN TrimStart(Tail(s)) ELSE s
TrimEnd(s) == IF s # <<>> /\ s[Len(s)] = " " THEN TrimEnd(SubSeq(s, 1, Len(s) - 1)) ELSE s
\* String.prototype.trim
Trim(s) == TrimEnd(TrimStart(s))

\* { data: superuser, error } of a lookup that did not reject
LookupError(lookup) == lookup = "error"
LookupData(lookup) == IF lookup = "row" THEN "row" ELSE "null"

\* mutant: only the error is tested, not the row
isSuperUserProduct_NoRowCheck(lookup) ==
    IF lookup = "throw" THEN FALSE
    ELSE IF LookupError(lookup) THEN FALSE ELSE TRUE

\* isSuperUser of the order router: if (error || !superuser) return false; return true; catch -> false
isSuperUserOrder(lookup) ==
    IF lookup = "throw" THEN FALSE
    ELSE IF LookupError(lookup) \/ LookupData(lookup) = "null" THEN FALSE ELSE TRUE

\* isSuperUser of the product router, the same text
isSuperUserProduct(lookup) ==
    IF lookup = "throw" THEN FALSE
    ELSE IF LookupError(lookup) \/ LookupData(lookup) = "null" THEN FALSE ELSE TRUE

\* mutant: the row is compared with undefined instead of null
isSuperUserSize_NullPasses(lookup) ==
    IF lookup = "throw" THEN FALSE
    ELSE IF LookupError(lookup) THEN FALSE ELSE TRUE

\* isSuperUser of the size router: if (error) return false; return superuser !== null; catch -> false
isSuperUserSize(lookup) ==
    IF lookup = "throw" THEN FALSE
    ELSE IF LookupError(lookup) THEN FALSE ELSE LookupData(lookup) # "null"

\* mutant: the error branch returns true
isSuperUserCategory_ErrorPasses(lookup) ==
    IF lookup = "throw" THEN FALSE
    ELSE IF LookupError(lookup) THEN TRUE ELSE LookupData(lookup) # "null"

\* isSuperUser of the category router, the same text as the size router's
isSuperUserCategory(lookup) ==
    IF lookup = "throw" THEN FALSE
    ELSE IF LookupError(lookup) THEN FALSE ELSE LookupData(lookup) # "null"

\* the copy of isSuperUser a route calls
isSuperUser(route, lookup) ==
    CASE route \in {"categories.add", "categories.delete"} -> isSuperUserCategory(lookup)
      [] route \in {"sizes.add", "sizes.delete"} -> isSuperUserSize(lookup)
      [] OTHER -> isSuperUserProduct(lookup)

CRespond(s, fields) == [fields EXCEPT !.pc = "done", !.status = s]
CCaught(fields) == CRespond(500, [fields EXCEPT !.err = TRUE])

\* category_ids && Array.isArray(category_ids); the array, [] when absent
Present(opt) == opt # <<>>
Ids(opt) == IF opt = <<>> THEN <<>> ELSE opt[1]

\* the 400 responses that precede the superuser check
InvalidBeforeCheck(b) ==
    CASE b.route \in {"categories.add", "sizes.add"} -> b.user_id = Undefined
      [] b.route \in {"categories.delete", "sizes.delete"} ->
           b.user_id = Undefined \/ b.id = Null
      [] b.route = "products.update" -> b.user_id = Undefined \/ b.id = Null
      [] OTHER -> FALSE

\* PUT /update: the next store call after `done` of its three parts, or the 200 response
UpdateNext(me, done) ==
    IF done < 1 /\ me.body.name # <<>> THEN [me EXCEPT !.pc = "products.update"]
    ELSE IF done < 2 /\ Present(me.body.category_ids)
         THEN [me EXCEPT !.pc = "product_categories.delete"]
    ELSE IF done < 3 /\ Present(me.body.size_ids)
         THEN [me EXCEPT !.pc = "product_sizes.delete"]
    ELSE CRespond(200, me)

\* what a handler does once isSuperUser returned true, up to its next store call
AfterCheck(me) ==
    CASE me.body.route \in {"categories.add", "sizes.add"} ->
           IF Trim(me.body.name) = <<>>
           THEN CRespond(400, me)
           ELSE [me EXCEPT !.pc = IF me.body.route = "categories.add"
                                  THEN "categories.insert" ELSE "sizes.insert"]
      [] me.body.route = "categories.delete" -> [me EXCEPT !.pc = "categories.select"]
      [] me.body.route = "sizes.delete" -> [me EXCEPT !.pc = "sizes.select"]
      [] me.body.route = "products.add" ->
           IF me.body.files = 0
           THEN CRespond(400, me)
           ELSE [me EXCEPT !.pc = "images.upload"]
      [] OTHER -> UpdateNext(me, 0)

\* a catalog request arrives: validation, then the superuser check, 403 when it is false
CatalogRequest(r, b, lookup) ==
    /\ creq[r].pc = "idle"
    /\ \A q \in CatalogReqs : q < r => creq[q].pc # "idle"
    /\ LET in == [creq[r] EXCEPT !.body = b]
           me == [in EXCEPT !.calls = Append(@, "superusers.select"), !.lookup = lookup,
                            !.checked = TRUE, !.isSuper = isSuperUser(b.route, lookup)]
       IN creq' = [creq EXCEPT ![r] =
                     IF InvalidBeforeCheck(b) THEN CRespond(400, in)
                     ELSE IF ~ me.isSuper THEN CRespond(403, me)
                     ELSE AfterCheck(me)]
    /\ UNCHANGED <<cartVars, orderVars, catalog, nextCategoryId, nextSizeId, nextProductId>>
    /\ UNCHANGED authVars

\* the handler of request r issues the store call `call`
Calling(r, call) == [creq[r] EXCEPT !.calls = Append(@, call)]
\* 500 on a returned error or a rejection, else `next`
OrFail(me, outcome, next) ==
    CASE outcome = "throw" -> CCaught(me)
      [] outcome = "error" -> CRespond(500, me)
      [] OTHER -> next

\* POST /api/categories/add: insert([{ name: trimmedName }])
InsertCategory(r, outcome) ==
    /\ creq[r].pc = "categories.insert"
    /\ LET me == Calling(r, "categories.insert")
       IN creq' = [creq EXCEPT ![r] = OrFail(me, outcome, CRespond(201, me))]
    /\ IF outcome = "ok"
       THEN /\ categories' = categories \cup
                   {[id |-> nextCategoryId, name |-> Trim(creq[r].body.name)]}
            /\ nextCategoryId' = nextCategoryId + 1
       ELSE UNCHANGED <<categories, nextCategoryId>>
    /\ UNCHANGED <<cartVars, orderVars, sizes, products, product_categories, product_sizes,
                   nextSizeId, nextProductId>>
    /\ UNCHANGED authVars

\* DELETE /api/categories/delete: the row is fetched first, 404 when it is not there
FetchCategory(r, outcome) ==
    /\ creq[r].pc = "categories.select"
    /\ LET me == Calling(r, "categories.select")
           found == \E c \in categories : c.id = me.body.id
       IN creq' = [creq EXCEPT ![r] =
             CASE outcome = "throw" -> CCaught(me)
               [] outcome = "error" \/ ~ found -> CRespond(404, me)
               [] OTHER -> [me EXCEPT !.pc = "categories.delete"]]
    /\ UNCHANGED <<cartVars, orderVars, catalog, nextCategoryId, nextSizeId, nextProductId>>
    /\ UNCHANGED authVars

DeleteCategory(r, outcome) ==
    /\ creq[r].pc = "categories.delete"
    /\ LET me == Calling(r, "categories.delete")
       IN creq' = [creq EXCEPT ![r] = OrFail(me, outcome, CRespond(200, me))]
    /\ IF outcome = "ok"
       THEN categories' = {c \in categories : c.id # creq[r].body.id}
       ELSE UNCHANGED categories
    /\ UNCHANGED <<cartVars, orderVars, sizes, products, product_categories, product_sizes,
                   nextCategoryId, nextSizeId, nextProductId>>
    /\ UNCHANGED authVars

\* POST /api/sizes/add: insert([{ size_name: trimmedName }])
InsertSize(r, outcome) ==
    /\ creq[r].pc = "sizes.insert"
    /\ LET me == Calling(r, "sizes.insert")
       IN creq' = [creq EXCEPT ![r] = OrFail(me, outcome, CRespond(201, me))]
    /\ IF outcome = "ok"
       THEN /\ sizes' = sizes \cup {[id |-> nextSizeId, size_name |-> Trim(creq[r].body.name)]}
            /\ nextSizeId' = nextSizeId + 1
       ELSE UNCHANGED <<sizes, nextSizeId>>
    /\ UNCHANGED <<cartVars, orderVars, categories, products, product_categories, product_sizes,
                   nextCategoryId, nextProductId>>
    /\ UNCHANGED authVars

\* DELETE /api/sizes/delete
FetchSize(r, outcome) ==
    /\ creq[r].pc = "sizes.select"
    /\ LET me == Calling(r, "sizes.select")
           found == \E z \in sizes : z.id = me.body.id
       IN creq' = [creq EXCEPT ![r] =
             CASE outcome = "throw" -> CCaught(me)
               [] outcome = "error" \/ ~ found -> CRespond(404, me)
               [] OTHER -> [me EXCEPT !.pc = "sizes.delete"]]
    /\ UNCHANGED <<cartVars, orderVars, catalog, nextCategoryId, nextSizeId, nextProductId>>
    /\ UNCHANGED authVars

DeleteSize(r, outcome) ==
    /\ creq[r].pc = "sizes.delete"
    /\ LET me == Calling(r, "sizes.delete")
       IN creq' = [creq EXCEPT ![r] = OrFail(me, outcome, CRespond(200, me))]
    /\ IF outcome = "ok"
       THEN sizes' = {z \in sizes : z.id # creq[r].body.id}
       ELSE UNCHANGED sizes
    /\ UNCHANGED <<cartVars, orderVars, categories, products, product_categories, product_sizes,
                   nextCategoryId, nextSizeId, nextProductId>>
    /\ UNCHANGED authVars

\* POST /api/products/add: each file is uploaded, a failed upload is logged and skipped;
\* 400 when none was uploaded
UploadImage(r, outcome) ==
    /\ creq[r].pc = "images.upload"
    /\ LET me == [Calling(r, "images.upload") EXCEPT
                     !.imageUrls = IF outcome = "ok" THEN @ + 1 ELSE @]
       IN creq' = [creq EXCEPT ![r] =
             IF Len(me.calls) - 1 < me.body.files THEN me
             ELSE IF me.imageUrls = 0 THEN CRespond(400, me)
             ELSE [me EXCEPT !.pc = "products.insert"]]
    /\ UNCHANGED <<cartVars, orderVars, catalog, nextCategoryId, nextSizeId, nextProductId>>
    /\ UNCHANGED authVars

\* the links of a product to the ids of an array
Links(product_id, ids, field) ==
    IF field = "category_id"
    THEN {[product_id |-> product_id, category_id |-> ids[i]] : i \in 1..Len(ids)}
    ELSE {[product_id |-> product_id, size_id |-> ids[i]] : i \in 1..Len(ids)}

\* the product row is inserted, then: 400 when category_ids is empty
InsertProduct(r, outcome) ==
    /\ creq[r].pc = "products.insert"
    /\ LET me == [Calling(r, "products.insert") EXCEPT !.productId = nextProductId]
       IN creq' = [creq EXCEPT ![r] =
             OrFail(Calling(r, "products.insert"), outcome,
                    IF Len(Ids(me.body.category_ids)) > 0
                    THEN [me EXCEPT !.pc = "product_categories.insert"]
                    ELSE CRespond(400, me))]
    /\ IF outcome = "ok"
       THEN /\ products' = products \cup {[id |-> nextProductId, title |-> creq[r].body.name]}
            /\ nextProductId' = nextProductId + 1
       ELSE UNCHANGED <<products, nextProductId>>
    /\ UNCHANGED <<cartVars, orderVars, categories, sizes, product_categories, product_sizes,
                   nextCategoryId, nextSizeId>>
    /\ UNCHANGED authVars

LinkCategories(r, outcome) ==
    /\ creq[r].pc = "product_categories.insert"
    /\ creq[r].body.route = "products.add"
    /\ LET me == Calling(r, "product_categories.insert")
       IN creq' = [creq EXCEPT ![r] =
             OrFail(me, outcome,
                    IF Len(Ids(me.body.size_ids)) > 0
                    THEN [me EXCEPT !.pc = "product_sizes.insert"]
                    ELSE CRespond(201, me))]
    /\ IF outcome = "ok"
       THEN product_categories' = product_categories \cup
               Links(creq[r].productId, Ids(creq[r].body.category_ids), "category_id")
       ELSE UNCHANGED product_categories
    /\ UNCHANGED <<cartVars, orderVars, categories, sizes, products, product_sizes,
                   nextCategoryId, nextSizeId, nextProductId>>
    /\ UNCHANGED authVars

LinkSizes(r, outcome) ==
    /\ creq[r].pc = "product_sizes.insert"
    /\ creq[r].body.route = "products.add"
    /\ LET me == Calling(r, "product_sizes.insert")
       IN creq' = [creq EXCEPT ![r] = OrFail(me, outcome, CRespond(201, me))]
    /\ IF outcome = "ok"
       THEN product_sizes' = product_sizes \cup
               Links(creq[r].productId, Ids(creq[r].body.size_ids), "size_id")
       ELSE UNCHANGED product_sizes
    /\ UNCHANGED <<cartVars, orderVars, categories, sizes, products, product_categories,
                   nextCategoryId, nextSizeId, nextProductId>>
    /\ UNCHANGED authVars

\* PUT /api/products/update: update(fieldsToUpdate).eq('id', product_id)
UpdateProduct(r, outcome) ==
    /\ creq[r].pc = "products.update"
    /\ LET me == Calling(r, "products.update")
       IN creq' = [creq EXCEPT ![r] = OrFail(me, outcome, UpdateNext(me, 1))]
    /\ IF outcome = "ok"
       THEN products' = {IF p.id = creq[r].body.id
                         THEN [p EXCEPT !.title = creq[r].body.name] ELSE p : p \in products}
       ELSE UNCHANGED products
    /\ UNCHANGED <<cartVars, orderVars, categories, sizes, product_categories, product_sizes,
                   nextCategoryId, nextSizeId, nextProductId>>
    /\ UNCHANGED authVars

\* mutant: the delete removes nothing
Unlinked_Nothing(table, product_id) == table

\* from(table).delete().eq('product_id', product_id)
Unlinked(table, product_id) == {l \in table : l.product_id # product_id}

\* the product's category links are deleted, then the given ones inserted
ClearCategories(r, outcome) ==
    /\ creq[r].pc = "product_categories.delete"
    /\ LET me == Calling(r, "product_categories.delete")
       IN creq' = [creq EXCEPT ![r] =
             OrFail(me, outcome, [me EXCEPT !.pc = "product_categories.insert"])]
    /\ IF outcome = "ok"
       THEN product_categories' = Unlinked(product_categories, creq[r].body.id)
       ELSE UNCHANGED product_categories
    /\ UNCHANGED <<cartVars, orderVars, categories, sizes, products, product_sizes,
                   nextCategoryId, nextSizeId, nextProductId>>
    /\ UNCHANGED authVars

SetCategories(r, outcome) ==
    /\ creq[r].pc = "product_categories.insert"
    /\ creq[r].body.route = "products.update"
    /\ LET me == Calling(r, "product_categories.insert")
       IN creq' = [creq EXCEPT ![r] = OrFail(me, outcome, UpdateNext(me, 2))]
    /\ IF outcome = "ok"
       THEN product_categories' = product_categories \cup
               Links(creq[r].body.id, Ids(creq[r].body.category_ids), "category_id")
       ELSE UNCHANGED product_categories
    /\ UNCHANGED <<cartVars, orderVars, categories, sizes, products, product_sizes,
                   nextCategoryId, nextSizeId, nextProductId>>
    /\ UNCHANGED authVars

\* the product's size links are deleted, then the given ones inserted
ClearSizes(r, outcome) ==
    /\ creq[r].pc = "product_sizes.delete"
    /\ LET me == Calling(r, "product_sizes.delete")
       IN creq' = [creq EXCEPT ![r] =
             OrFail(me, outcome, [me EXCEPT !.pc = "product_sizes.insert"])]
    /\ IF outcome = "ok"
       THEN product_sizes' = Unlinked(product_sizes, creq[r].body.id)
       ELSE UNCHANGED product_sizes
    /\ UNCHANGED <<cartVars, orderVars, categories, sizes, products, product_categories,
                   nextCategoryId, nextSizeId, nextProductId>>
    /\ UNCHANGED authVars

SetSizes(r, outcome) ==
    /\ creq[r].pc = "product_sizes.insert"
    /\ creq[r].body.route = "products.update"
    /\ LET me == Calling(r, "product_sizes.insert")
       IN creq' = [creq EXCEPT ![r] = OrFail(me, outcome, UpdateNext(me, 3))]
    /\ IF outcome = "ok"
       THEN product_sizes' = product_sizes \cup
               Links(creq[r].body.id, Ids(creq[r].body.size_ids), "size_id")
       ELSE UNCHANGED product_sizes
    /\ UNCHANGED <<cartVars, orderVars, categories, sizes, products, product_categories,
                   nextCategoryId, nextSizeId, nextProductId>>
    /\ UNCHANGED authVars

\* ================================================================ auth.js
others == <<cartVars, catalogVars, orderVars>>

\* the auth provider's user for an email: it keeps emails in lower case
UserOf(email) == {u \in authUsers : u.email = ToLowerCase(email)}

\* supabase.auth.signUp({email, password, options: {data: {username, email_verified: false}}})
SignedUp(email, password) ==
    IF UserOf(email) # {} THEN authUsers
    ELSE authUsers \cup {[id |-> nextUserId, email |-> ToLowerCase(email),
                          password |-> password, email_verified |-> FALSE,
                          email_confirmed |-> FALSE]}

\* the row a handler inserts into otps
OtpRow(me) ==
    [id |-> nextOtpId, email |-> me.email, otp |-> me.otp, purpose |-> me.purpose,
     expires_at |-> me.expiresAt]

\* signup arrives: the provider's signUp, 400 on its error, else the OTP is generated
Signup(r, email, password, otp, outcome) ==
    /\ ireq[r].pc = "idle"
    /\ \A q \in IssueReqs : q < r => ireq[q].pc # "idle"
    /\ LET me == [ireq[r] EXCEPT !.kind = "signup", !.email = email,
                                 !.purpose = "email_verification",
                                 !.calls = Append(@, "auth.signUp")]
       IN ireq' = [ireq EXCEPT ![r] =
             CASE outcome = "throw" -> Caught(me)
               [] outcome = "error" -> Respond(400, me)
               [] OTHER -> [me EXCEPT !.otp = otp, !.expiresAt = now + OtpLifetime,
                                      !.pc = "otps.insert"]]
    /\ IF outcome = "ok"
       THEN /\ authUsers' = SignedUp(email, password)
            /\ nextUserId' = IF UserOf(email) # {} THEN nextUserId ELSE nextUserId + 1
       ELSE UNCHANGED <<authUsers, nextUserId>>
    /\ UNCHANGED <<others, otps, nextOtpId, now, areq, lastLogin>>

\* requestOTPForPasswordReset arrives: the OTP is generated and inserted under the email
\* as given; the result of the insert is not looked at
RequestOTPForPasswordReset(r, email, otp, outcome) ==
    /\ ireq[r].pc = "idle"
    /\ \A q \in IssueReqs : q < r => ireq[q].pc # "idle"
    /\ LET me == [ireq[r] EXCEPT !.kind = "requestOTP", !.email = email,
                                 !.purpose = "password_reset", !.otp = otp,
                                 !.expiresAt = now + OtpLifetime,
                                 !.calls = Append(@, "otps.insert")]
       IN /\ ireq' = [ireq EXCEPT ![r] =
                IF outcome = "throw" THEN Caught(me) ELSE [me EXCEPT !.pc = "sendMail"]]
          /\ IF outcome = "ok"
             THEN otps' = otps \cup {OtpRow(me)} /\ nextOtpId' = nextOtpId + 1
             ELSE UNCHANGED <<otps, nextOtpId>>
    /\ UNCHANGED <<others, authUsers, nextUserId, now, areq, lastLogin>>

\* resendOTP arrives: 400 without email or purpose, else the OTP is generated and the
\* stored OTPs of the email and purpose are deleted; the result is not looked at
ResendOTP(r, email, purpose, otp, outcome) ==
    /\ ireq[r].pc = "idle"
    /\ \A q \in IssueReqs : q < r => ireq[q].pc # "idle"
    /\ LET in == [ireq[r] EXCEPT !.kind = "resendOTP", !.email = email,
                                 !.purpose = purpose]
           me == [in EXCEPT !.otp = otp, !.expiresAt = now + OtpLifetime,
                            !.calls = Append(@, "otps.delete")]
           rejected == email = <<>> \/ purpose = ""
       IN /\ ireq' = [ireq EXCEPT ![r] =
                IF rejected THEN Respond(400, in)
                ELSE IF outcome = "throw" THEN Caught(me)
                ELSE [me EXCEPT !.pc = "otps.insert"]]
          /\ IF ~ rejected /\ outcome = "ok"
             THEN otps' = {o \in otps : ~ (o.email = email /\ o.purpose = purpose)}
             ELSE UNCHANGED otps
    /\ UNCHANGED <<others, authUsers, nextUserId, nextOtpId, now, areq, lastLogin>>

\* from('otps').insert({email, otp, purpose, expires_at}) of signup and resendOTP: only
\* resendOTP looks at the returned error
InsertOtp(r, outcome) ==
    /\ ireq[r].pc = "otps.insert"
    /\ LET me == [ireq[r] EXCEPT !.calls = Append(@, "otps.insert")]
       IN /\ ireq' = [ireq EXCEPT ![r] =
                CASE outcome = "throw" -> Caught(me)
                  [] outcome = "error" /\ me.kind = "resendOTP" -> Respond(500, me)
                  [] OTHER -> [me EXCEPT !.pc = "sendMail"]]
          /\ IF outcome = "ok"
             THEN otps' = otps \cup {OtpRow(me)} /\ nextOtpId' = nextOtpId + 1
             ELSE UNCHANGED <<otps, nextOtpId>>
    /\ UNCHANGED <<others, authUsers, nextUserId, now, areq, lastLogin>>

\* sendOTPEmail: it throws when the mail is not sent, which every caller answers with 500
SendOTPEmail(r, outcome) ==
    /\ ireq[r].pc = "sendMail"
    /\ LET me == [ireq[r] EXCEPT !.calls = Append(@, "sendMail")]
       IN ireq' = [ireq EXCEPT ![r] =
             IF outcome = "throw" THEN Caught(me) ELSE Respond(200, me)]
    /\ UNCHANGED <<others, authUsers, otps, nextUserId, nextOtpId, now, areq, lastLogin>>

\* mutant: the test of the two flags is missing
LoginAllowed_Unchecked(user) == TRUE

\* emailConfirmed && emailVerified
LoginAllowed(user) == user.email_confirmed /\ user.email_verified

\* login: signInWithPassword, 401 on its error, 401 for an unverified user, else the token
Login(email, password, outcome) ==
    /\ LET found == {u \in UserOf(email) : u.password = password}
           authError == outcome = "error" \/ found = {}
       IN IF outcome = "throw" \/ authError
          THEN lastLogin' = [email |-> email, password |-> password, accepted |-> FALSE,
                             status |-> IF outcome = "throw" THEN 500 ELSE 401,
                             token |-> Null]
          ELSE \E u \in found :
                  lastLogin' = [email |-> email, password |-> password, accepted |-> TRUE,
                                status |-> IF LoginAllowed(u) THEN 200 ELSE 401,
                                token |-> IF LoginAllowed(u) THEN u.id ELSE Null]
    /\ UNCHANGED <<others, authUsers, otps, nextUserId, nextOtpId, now, ireq, areq>>

\* .eq('email', email).eq('purpose', purpose)
OtpsOf(email, purpose) == {o \in otps : o.email = email /\ o.purpose = purpose}

\* mutant: the order is ascending
Latest_Ascending(rows) == {o \in rows : \A q \in rows : o.expires_at <= q.expires_at}

\* .order('expires_at', {ascending: false}).limit(1): the rows one of which is returned
Latest(rows) == {o \in rows : \A q \in rows : q.expires_at <= o.expires_at}

\* otpRecord.otp === otp && new Date() <= new Date(otpRecord.expires_at)
isOTPValid(otpRecord, otp) == otpRecord.otp = otp /\ now <= otpRecord.expires_at

\* after the select of the latest OTP: 400 on an error or no row (single()), 400 for
\* another code or an expired one, else on to the user list
AfterOtpSelect(me, outcome, found) ==
    CASE outcome = "throw" -> Caught(me)
      [] outcome = "error" \/ found = <<>> -> Respond(400, me)
      [] ~ isOTPValid(found[1], me.otp) -> Respond(400, me)
      [] OTHER -> [me EXCEPT !.otpRecord = found, !.pc = "auth.listUsers"]

\* the select of the latest OTP of an email and purpose, and the handler up to its next
\* call: what the request can be after it
Selected(me, email, purpose, outcome) ==
    LET rows == Latest(OtpsOf(email, purpose))
        called == [me EXCEPT !.calls = Append(@, "otps.select")]
    IN IF rows = {} THEN {AfterOtpSelect(called, outcome, <<>>)}
       ELSE {AfterOtpSelect(called, outcome, <<o>>) : o \in rows}

\* verifyEmailWithOTP arrives: the latest email_verification OTP of the email as given
VerifyEmailWithOTP(r, email, otp, outcome) ==
    /\ areq[r].pc = "idle"
    /\ \A q \in OtpReqs : q < r => areq[q].pc # "idle"
    /\ LET me == [areq[r] EXCEPT !.kind = "verifyEmail", !.email = email, !.otp = otp]
       IN \E next \in Selected(me, email, "email_verification", outcome) :
             areq' = [areq EXCEPT ![r] = next]
    /\ UNCHANGED <<others, authUsers, otps, nextUserId, nextOtpId, now, ireq, lastLogin>>

\* resetPasswordWithOTP arrives: the latest password_reset OTP of email.toLowerCase()
ResetPasswordWithOTP(r, email, otp, new_password, outcome) ==
    /\ areq[r].pc = "idle"
    /\ \A q \in OtpReqs : q < r => areq[q].pc # "idle"
    /\ LET me == [areq[r] EXCEPT !.kind = "resetPassword", !.email = email, !.otp = otp,
                                 !.new_password = new_password]
       IN \E next \in Selected(me, ToLowerCase(email), "password_reset", outcome) :
             areq' = [areq EXCEPT ![r] = next]
    /\ UNCHANGED <<others, authUsers, otps, nextUserId, nextOtpId, now, ireq, lastLogin>>

\* supabaseAdmin.auth.admin.listUsers(): 500 on an error, 404 when no user has the email
\* in any case of letters
ListUsers(r, outcome) ==
    /\ areq[r].pc = "auth.listUsers"
    /\ LET me == [areq[r] EXCEPT !.calls = Append(@, "auth.listUsers")]
           found == {u \in authUsers : ToLowerCase(u.email) = ToLowerCase(me.email)}
       IN IF outcome = "ok" /\ found # {}
          THEN \E u \in found :
                  areq' = [areq EXCEPT ![r] = [me EXCEPT !.user = u.id,
                                                         !.pc = "auth.updateUserById"]]
          ELSE areq' = [areq EXCEPT ![r] =
                  CASE outcome = "throw" -> Caught(me)
                    [] outcome = "error" -> Respond(500, me)
                    [] OTHER -> Respond(404, me)]
    /\ UNCHANGED <<others, authUsers, otps, nextUserId, nextOtpId, now, ireq, lastLogin>>

\* what updateUserById(user.id, ...) of the handler makes of user u
Updated(me, u) ==
    IF u.id # me.user THEN u
    ELSE IF me.kind = "verifyEmail"
         THEN [u EXCEPT !.email_verified = TRUE, !.email_confirmed = TRUE]
         ELSE [u EXCEPT !.password = me.new_password]

\* supabaseAdmin.auth.admin.updateUserById: 500 on an error, else on to the OTP delete
UpdateUserById(r, outcome) ==
    /\ areq[r].pc = "auth.updateUserById"
    /\ LET me == [areq[r] EXCEPT !.calls = Append(@, "auth.updateUserById")]
       IN /\ areq' = [areq EXCEPT ![r] =
                CASE outcome = "throw" -> Caught(me)
                  [] outcome = "error" -> Respond(500, me)
                  [] OTHER -> [me EXCEPT !.pc = "otps.delete"]]
          /\ IF outcome = "ok"
             THEN authUsers' = {Updated(me, u) : u \in authUsers}
             ELSE UNCHANGED authUsers
    /\ UNCHANGED <<others, otps, nextUserId, nextOtpId, now, ireq, lastLogin>>

\* mutant: the delete removes nothing
WithoutOtp_Kept(id) == otps

\* the otps table after delete().eq('id', id)
WithoutOtp(id) == {o \in otps : o.id # id}

\* from('otps').delete().eq('id', otpRecord.id): the result is not looked at, then 200
DeleteOtp(r, outcome) ==
    /\ areq[r].pc = "otps.delete"
    /\ LET me == [areq[r] EXCEPT !.calls = Append(@, "otps.delete")]
       IN /\ areq' = [areq EXCEPT ![r] =
                IF outcome = "throw" THEN Caught(me) ELSE Respond(200, me)]
          /\ IF outcome = "ok"
             THEN otps' = WithoutOtp(me.otpRecord[1].id)
             ELSE UNCHANGED otps
    /\ UNCHANGED <<others, authUsers, nextUserId, nextOtpId, now, ireq, lastLogin>>

\* time passes
Tick ==
    /\ now < MaxTime
    /\ now' = now + 1
    /\ UNCHANGED <<others, authUsers, otps, nextUserId, nextOtpId, ireq, areq, lastLogin>>

Next ==
    \/ \E b \in AddBodies, o \in {"ok", "error"} :
          AddToCart(b.user_id, b.product_id, b.size_id, b.quantity, o)
    \/ \E r \in Reqs, u \in UserInputs, o \in StoreOutcomes : PlaceOrder(r, u, o)
    \/ \E r \in Reqs, o \in StoreOutcomes : CreateOrder(r, o)
    \/ \E r \in Reqs, o \in StoreOutcomes : InsertOrderItems(r, o)
    \/ \E r \in Reqs, o \in StoreOutcomes : ClearCart(r, o)

NextCatalog ==
    \/ \E r \in CatalogReqs, b \in CatalogBodies :
          \E l \in LookupOutcomes(b.user_id) : CatalogRequest(r, b, l)
    \/ \E r \in CatalogReqs, o \in StoreOutcomes : InsertCategory(r, o)
    \/ \E r \in CatalogReqs, o \in StoreOutcomes : FetchCategory(r, o)
    \/ \E r \in CatalogReqs, o \in StoreOutcomes : DeleteCategory(r, o)
    \/ \E r \in CatalogReqs, o \in StoreOutcomes : InsertSize(r, o)
    \/ \E r \in CatalogReqs, o \in StoreOutcomes : FetchSize(r, o)
    \/ \E r \in CatalogReqs, o \in StoreOutcomes : DeleteSize(r, o)
    \/ \E r \in CatalogReqs, o \in StoreOutcomes : UploadImage(r, o)
    \/ \E r \in CatalogReqs, o \in StoreOutcomes : InsertProduct(r, o)
    \/ \E r \in CatalogReqs, o \in StoreOutcomes : LinkCategories(r, o)
    \/ \E r \in CatalogReqs, o \in StoreOutcomes : LinkSizes(r, o)
    \/ \E r \in CatalogReqs, o \in StoreOutcomes : UpdateProduct(r, o)
    \/ \E r \in CatalogReqs, o \in StoreOutcomes : ClearCategories(r, o)
    \/ \E r \in CatalogReqs, o \in StoreOutcomes : SetCategories(r, o)
    \/ \E r \in CatalogReqs, o \in StoreOutcomes : ClearSizes(r, o)
    \/ \E r \in CatalogReqs, o \in StoreOutcomes : SetSizes(r, o)

\* add-to-cart and place-order of the cart router, and the catalog routers
Spec == Init /\ [][Next]_vars
\* adding and deleting cart lines
NextCartLines ==
    \/ \E b \in AddBodies, o \in {"ok", "error"} :
          AddToCart(b.user_id, b.product_id, b.size_id, b.quantity, o)
    \/ \E r \in DeleteReqs, b \in DeleteBodies, o \in StoreOutcomes : DeleteRequest(r, b, o)
    \/ \E r \in DeleteReqs, o \in StoreOutcomes : DeleteCartLine(r, o)

SpecCartLines == Init /\ [][NextCartLines]_vars
\* POST /api/orders over the stocked catalog
NextOrders ==
    \/ \E r \in OrderReqs, b \in OrderBodies, o \in StoreOutcomes : OrderRequest(r, b, o)
    \/ \E r \in OrderReqs, o \in StoreOutcomes : SelectProduct(r, o)
    \/ \E r \in OrderReqs, o \in StoreOutcomes : SelectProductSize(r, o)
    \/ \E r \in OrderReqs, o \in StoreOutcomes : InsertItems(r, o)

SpecOrders == InitStocked /\ [][NextOrders]_vars

\* PUT /api/orders/status next to the two routes that create orders: one place-order run
\* of the cart router and one POST /api/orders request
NextStatus ==
    \/ \E r \in StatusReqs, b \in StatusBodies, o \in StoreOutcomes :
          UpdateOrderStatus(r, b, o)
    \/ OrderRequest(1, [user_id |-> "u2", items |-> <<Item(5, 3, <<1>>)>>], "ok")
    \/ SelectProduct(1, "ok")
    \/ SelectProductSize(1, "ok")
    \/ InsertItems(1, "ok")
    \/ AddToCart("u1", 5, Null, <<2>>, "ok")
    \/ PlaceOrder(1, "u1", "ok")
    \/ CreateOrder(1, "ok")
    \/ InsertOrderItems(1, "ok")
    \/ ClearCart(1, "ok")

SpecStatus == InitStocked /\ [][NextStatus]_vars
\* the cart router over the stocked catalog
SpecStocked == InitStocked /\ [][Next]_vars
\* every store call of a started place-order run returns: the handler's next step is taken
FairSpec ==
    /\ Spec
    /\ \A r \in Reqs :
          /\ WF_vars(\E o \in StoreOutcomes : CreateOrder(r, o))
          /\ WF_vars(\E o \in StoreOutcomes : InsertOrderItems(r, o))
          /\ WF_vars(\E o \in StoreOutcomes : ClearCart(r, o))
SpecCatalog == Init /\ [][NextCatalog]_vars

\* concurrent updates of product 5 by the administrator
NextUpdates ==
    \/ \E r \in CatalogReqs, b \in UpdateBodies : CatalogRequest(r, b, "row")
    \/ \E r \in CatalogReqs, o \in StoreOutcomes : UpdateProduct(r, o)
    \/ \E r \in CatalogReqs, o \in StoreOutcomes : ClearCategories(r, o)
    \/ \E r \in CatalogReqs, o \in StoreOutcomes : SetCategories(r, o)
    \/ \E r \in CatalogReqs, o \in StoreOutcomes : ClearSizes(r, o)
    \/ \E r \in CatalogReqs, o \in StoreOutcomes : SetSizes(r, o)

SpecUpdates == InitLinked /\ [][NextUpdates]_vars

\* sign up, verify the email and log in, within the lifetime of an OTP
NextAuth ==
    \/ \E r \in IssueReqs : Signup(r, <<"A", "@">>, "p1", "111111", "ok")
    \/ \E r \in IssueReqs : InsertOtp(r, "ok")
    \/ \E r \in IssueReqs, o \in {"ok", "throw"} : SendOTPEmail(r, o)
    \/ \E p \in Passwords : Login(<<"a", "@">>, p, "ok")
    \/ \E r \in OtpReqs, e \in {<<"A", "@">>, <<"a", "@">>}, c \in Codes, o \in {"ok", "error"} :
          VerifyEmailWithOTP(r, e, c, o)
    \/ \E r \in OtpReqs, o \in StoreOutcomes : ListUsers(r, o)
    \/ \E r \in OtpReqs, o \in StoreOutcomes : UpdateUserById(r, o)
    \/ \E r \in OtpReqs, o \in StoreOutcomes : DeleteOtp(r, o)

SpecAuth == Init /\ [][NextAuth]_vars

\* OTPs of both purposes are issued, presented and expire
NextOtp ==
    \/ \E r \in IssueReqs : Signup(r, <<"a", "@">>, "p1", "111111", "ok")
    \/ \E r \in IssueReqs, e \in {<<"A", "@">>, <<"a", "@">>}, c \in Codes :
          RequestOTPForPasswordReset(r, e, c, "ok")
    \/ \E r \in IssueReqs : ResendOTP(r, <<"a", "@">>, "password_reset", "222222", "ok")
    \/ \E r \in IssueReqs : InsertOtp(r, "ok")
    \/ \E r \in IssueReqs : SendOTPEmail(r, "ok")
    \/ \E r \in OtpReqs, c \in Codes, o \in {"ok", "throw"} :
          VerifyEmailWithOTP(r, <<"a", "@">>, c, o)
    \/ \E r \in OtpReqs, e \in {<<"A", "@">>, <<"a", "@">>}, c \in Codes, o \in {"ok", "throw"} :
          ResetPasswordWithOTP(r, e, c, "p2", o)
    \/ \E r \in OtpReqs : ListUsers(r, "ok")
    \/ \E r \in OtpReqs : UpdateUserById(r, "ok")
    \/ \E r \in OtpReqs, o \in {"ok", "error"} : DeleteOtp(r, o)
    \/ Tick

SpecOtp == Init /\ [][NextOtp]_vars

\* both routes that create orders, two requests of each, for the users u1 and u2
NextIntegrity ==
    \/ \E u \in Users : AddToCart(u, 5, Null, <<2>>, "ok")
    \/ \E r \in Reqs, u \in Users : PlaceOrder(r, u, "ok")
    \/ \E r \in Reqs : CreateOrder(r, "ok")
    \/ \E r \in Reqs : InsertOrderItems(r, "ok")
    \/ \E r \in Reqs : ClearCart(r, "ok")
    \/ \E r \in OrderReqs, u \in Users :
          OrderRequest(r, [user_id |-> u, items |-> <<Item(5, 3, <<1>>)>>], "ok")
    \/ \E r \in OrderReqs : SelectProduct(r, "ok")
    \/ \E r \in OrderReqs : SelectProductSize(r, "ok")
    \/ \E r \in OrderReqs : InsertItems(r, "ok")

SpecIntegrity == InitStocked /\ [][NextIntegrity]_vars

\* ================================================================== claims
\* the (product_id, size_id, quantity) of a row, and how often a set or an array of rows holds it
Triple(x) == <<x.product_id, x.size_id, x.quantity>>
CountSeq(s, t) == Cardinality({i \in 1..Len(s) : Triple(s[i]) = t})
CountSet(S, t) == Cardinality({x \in S : Triple(x) = t})

\* the rows of orderitems that carry an order's id
ItemsOf(orderId) == {it \in orderitems : it.order_id = orderId}

\* the cart lines of one user in a cart table
Lines(table, user_id) == {l \in table : l.user_id = user_id}

\* a set of rows and an array of rows hold the same (product_id, size_id, quantity) multiset
SameTriples(S, s) ==
    \A t \in {Triple(x) : x \in S} \cup {Triple(s[i]) : i \in 1..Len(s)} :
        CountSet(S, t) = CountSeq(s, t)

\* the run has inserted its order and its order items
ItemsInserted(r) ==
    \/ req[r].pc = "cart.delete"
    \/ req[r].pc = "done" /\ Len(req[r].calls) = 4

\* the step of the run r that issued the store call named by pc
Step(r, pc) == req[r].pc = pc /\ req'[r] # req[r]

\* C1: a place-order run for a cart of N >= 1 lines whose inserts succeed has created
\* exactly one order row and exactly N order items, all with the new order's id, whose
\* (product_id, size_id, quantity) multiset is that of the cart lines read in step 1,
\* which are the user's cart lines at the time of the read.
C1_Inv ==
    \A r \in Reqs : ItemsInserted(r) =>
        /\ Len(req[r].cartItems) >= 1
        /\ Cardinality({o \in orders : o.id = req[r].orderId}) = 1
        /\ \A o \in orders : o.id = req[r].orderId => o.user_id = req[r].user_id
        /\ Cardinality(ItemsOf(req[r].orderId)) = Len(req[r].cartItems)
        /\ SameTriples(ItemsOf(req[r].orderId), req[r].cartItems)
        /\ ItemsOf(req[r].orderId) = Range(req[r].orderItemsData)

C1_Act ==
    \A r \in Reqs :
        /\ req[r].pc = "idle" /\ req'[r].pc = "orders.insert" =>
              /\ Range(req'[r].cartItems) = Lines(cart, req'[r].user_id)
              /\ Len(req'[r].cartItems) = Cardinality(Lines(cart, req'[r].user_id))
        /\ req'[r] # req[r] =>
              /\ IF req[r].pc = "orders.insert" /\ req'[r].pc = "orderitems.insert"
                 THEN orders \subseteq orders' /\ Cardinality(orders') = Cardinality(orders) + 1
                 ELSE orders' = orders
              /\ IF req[r].pc = "orderitems.insert" /\ req'[r].pc = "cart.delete"
                 THEN /\ orderitems \subseteq orderitems'
                      /\ Cardinality(orderitems') =
                            Cardinality(orderitems) + Len(req[r].cartItems)
                 ELSE orderitems' = orderitems

C1_OrderMirrorsCart == []C1_Inv /\ [][C1_Act]_vars

\* a run answered 201 for a cart of two lines with different products, sizes and quantities
C1_Witness ==
    \E r \in Reqs :
        /\ req[r].pc = "done" /\ req[r].status = 201
        /\ Len(req[r].cartItems) = 2
        /\ Triple(req[r].cartItems[1]) # Triple(req[r].cartItems[2])
        /\ Cardinality(ItemsOf(req[r].orderId)) = 2

\* C2: place-order for a user whose cart has no line (and whose cart read does not
\* throw) responds 400 at once and leaves cart, orders and orderitems unchanged.
C2_Act ==
    \A r \in Reqs :
        (/\ req[r].pc = "idle" /\ req'[r].pc # "idle"
         /\ req'[r].user_id \in Users
         /\ Lines(cart, req'[r].user_id) = {}
         /\ ~ req'[r].err)
        => /\ req'[r].pc = "done"
           /\ req'[r].status = 400
           /\ cart' = cart /\ orders' = orders /\ orderitems' = orderitems

C2_EmptyCartRejected == [][C2_Act]_vars

\* a run was answered 400 on a cart read that returned no line, while the tables are not empty
C2_Witness ==
    \E r \in Reqs :
        /\ req[r].pc = "done" /\ req[r].status = 400
        /\ req[r].user_id \in Users /\ ~ req[r].cartError
        /\ req[r].calls = <<"cart.select">>
        /\ Lines(cart, req[r].user_id) = {}
        /\ cart # {}

\* C3: the step that completes a place-order run with 201 leaves the user's cart with
\* zero lines, and no step of the run changes the cart lines of another user.
C3_Act ==
    \A r \in Reqs :
        /\ req[r].pc = "cart.delete" /\ req'[r].status = 201 =>
              Lines(cart', req[r].user_id) = {}
        /\ req'[r] # req[r] =>
              \A v \in Users \ {req'[r].user_id} : Lines(cart', v) = Lines(cart, v)

C3_CartClearedOnSuccess == [][C3_Act]_vars

\* a run was answered 201, its user's cart is empty and another user's line is still there
C3_Witness ==
    \E r \in Reqs :
        /\ req[r].pc = "done" /\ req[r].status = 201
        /\ Lines(cart, req[r].user_id) = {}
        /\ \E l \in cart : l.user_id # req[r].user_id /\ l.id < nextCartId - 1

\* C4: when the order insert succeeded and the order-items insert fails, the request ends
\* with the 500 response, the order row exists with zero order items, the step changes
\* neither cart nor orders, and the cart lines the run read were not empty.
C4_Act ==
    \A r \in Reqs :
        (Step(r, "orderitems.insert") /\ (req'[r].orderItemsError \/ req'[r].err))
        => /\ req'[r].pc = "done"
           /\ req'[r].status = 500
           /\ \E o \in orders' : o.id = req[r].orderId /\ o.user_id = req[r].user_id
           /\ {it \in orderitems' : it.order_id = req[r].orderId} = {}
           /\ cart' = cart /\ orders' = orders
           /\ Len(req[r].cartItems) >= 1

C4_OrphanOrder == [][C4_Act]_vars

\* an items insert failed: the order of the run has no item and the cart lines read are all there
C4_Witness ==
    \E r \in Reqs :
        /\ req[r].pc = "done" /\ req[r].orderItemsError /\ req[r].status = 500
        /\ \E o \in orders : o.id = req[r].orderId /\ ItemsOf(o.id) = {}
        /\ Range(req[r].cartItems) = Lines(cart, req[r].user_id)
        /\ Len(req[r].cartItems) = 2

\* the cart delete of the run failed
FailedAtClear(r) ==
    /\ req[r].pc = "done"
    /\ Len(req[r].calls) = 4
    /\ req[r].clearCartError \/ req[r].err

\* C5: when the cart delete fails after the order and its items were inserted, the request
\* ends with 500, the order and its N items stay and the cart is unchanged; a run of the
\* same user that reads the same cart lines creates another order whose items have the
\* same (product_id, size_id, quantity) multiset as the first one's.
C5_Act ==
    \A r \in Reqs :
        (Step(r, "cart.delete") /\ (req'[r].clearCartError \/ req'[r].err))
        => /\ req'[r].pc = "done"
           /\ req'[r].status = 500
           /\ cart' = cart /\ orders' = orders /\ orderitems' = orderitems
           /\ \E o \in orders' : o.id = req[r].orderId
           /\ Cardinality({it \in orderitems' : it.order_id = req[r].orderId})
                 = Len(req[r].cartItems)

C5_Inv ==
    \A r1, r2 \in Reqs :
        (/\ r1 # r2
         /\ FailedAtClear(r1)
         /\ ItemsInserted(r2)
         /\ req[r2].user_id = req[r1].user_id
         /\ req[r2].cartItems = req[r1].cartItems)
        => /\ req[r2].orderId # req[r1].orderId
           /\ Cardinality(ItemsOf(req[r2].orderId)) = Cardinality(ItemsOf(req[r1].orderId))
           /\ SameTriples(ItemsOf(req[r2].orderId), req[r1].orderItemsData)

C5_ClearFailureDuplicates == []C5_Inv /\ [][C5_Act]_vars

\* the first run failed at the cart delete, a later run of the same user read the same two
\* lines and was answered 201: two orders, four items
C5_Witness ==
    \E r1, r2 \in Reqs :
        /\ FailedAtClear(r1) /\ req[r1].status = 500
        /\ req[r2].pc = "done" /\ req[r2].status = 201
        /\ req[r2].user_id = req[r1].user_id
        /\ req[r2].cartItems = req[r1].cartItems
        /\ Len(req[r1].cartItems) = 2
        /\ req[r1].orderId < req[r2].orderId
        /\ Cardinality(orderitems) = 4

\* C6: two place-order runs of one user that read the same non-empty cart (neither had
\* cleared it) each create their own order with their own copy of the N cart lines as
\* order items: two orders, 2N order items.
C6_Inv ==
    \A r1, r2 \in Reqs :
        (/\ r1 # r2
         /\ ItemsInserted(r1) /\ ItemsInserted(r2)
         /\ req[r1].user_id = req[r2].user_id
         /\ req[r1].cartItems = req[r2].cartItems)
        => /\ req[r1].orderId # req[r2].orderId
           /\ {o \in orders : o.id \in {req[r1].orderId, req[r2].orderId}
                              /\ o.user_id = req[r1].user_id} =
                 {NewOrder(req[r1].orderId, req[r1].user_id),
                  NewOrder(req[r2].orderId, req[r1].user_id)}
           /\ ItemsOf(req[r1].orderId) \cap ItemsOf(req[r2].orderId) = {}
           /\ Cardinality(ItemsOf(req[r1].orderId) \cup ItemsOf(req[r2].orderId))
                 = 2 * Len(req[r1].cartItems)
           /\ SameTriples(ItemsOf(req[r1].orderId), req[r2].cartItems)
           /\ SameTriples(ItemsOf(req[r2].orderId), req[r1].cartItems)

C6_ConcurrentPlacementsDuplicate == C6_Inv

\* both runs were answered 201 for the same two cart lines: both had read before either cleared
C6_Witness ==
    \E r1, r2 \in Reqs :
        /\ r1 # r2
        /\ req[r1].pc = "done" /\ req[r1].status = 201
        /\ req[r2].pc = "done" /\ req[r2].status = 201
        /\ req[r1].user_id = req[r2].user_id
        /\ req[r1].cartItems = req[r2].cartItems
        /\ Len(req[r1].cartItems) = 2
        /\ Cardinality(orders) = 2
        /\ Cardinality(orderitems) = 4

\* C7: when the order insert fails the request ends with 500 after its two store calls,
\* the step changes no table, and a request that has responded issues no further call.
C7_Act ==
    \A r \in Reqs :
        /\ (Step(r, "orders.insert") /\ (req'[r].orderError \/ req'[r].err))
           => /\ req'[r].pc = "done"
              /\ req'[r].status = 500
              /\ req'[r].calls = <<"cart.select", "orders.insert">>
              /\ req'[r].orderId = Null
              /\ cart' = cart /\ orders' = orders /\ orderitems' = orderitems
        /\ req[r].pc = "done" => req'[r] = req[r]

C7_OrderInsertFailureAborts == [][C7_Act]_vars

\* an order insert failed: no order, no item, the cart lines read are still there
C7_Witness ==
    \E r \in Reqs :
        /\ req[r].pc = "done" /\ req[r].orderError /\ req[r].status = 500
        /\ orders = {} /\ orderitems = {}
        /\ Len(req[r].cartItems) >= 1
        /\ Range(req[r].cartItems) = Lines(cart, req[r].user_id)

\* some store call of the run failed: it returned an error or rejected
StoreCallFailed(r) ==
    \/ req[r].cartError \/ req[r].orderError
    \/ req[r].orderItemsError \/ req[r].clearCartError \/ req[r].err

\* C8: place-order responds 201 only when all four store steps succeeded, 400 only when
\* user_id is missing or the cart is empty, and 500 whenever a store call failed.
C8_StatusCodes ==
    \A r \in Reqs : req[r].pc = "done" =>
        /\ req[r].status = 201 => Len(req[r].calls) = 4 /\ ~ StoreCallFailed(r)
        /\ req[r].status = 400 =>
              \/ req[r].user_id = Undefined
              \/ req[r].calls = <<"cart.select">> /\ ~ StoreCallFailed(r)
        /\ StoreCallFailed(r) => req[r].status = 500

\* ------------------------------------------------------------------ C9
Lookups == {"row", "null", "error", "throw"}
Copies(l) == <<isSuperUserOrder(l), isSuperUserProduct(l), isSuperUserSize(l),
               isSuperUserCategory(l)>>
\* a request whose permission check returned false
Refused(r) == creq[r].checked /\ ~ creq[r].isSuper

\* C9: the permission check returns true only if the lookup returned a row for the user in
\* the administrator table; it returns false when the row is absent, when the lookup
\* returns an error and when it throws; it never throws to its caller (the handler answers
\* 403, not the 500 of its own catch block); and a caller cannot tell the false cases
\* apart: two refused requests with the same body are in the same state.
C9_PermissionCheck ==
    /\ \A l \in Lookups : \A i \in 1..4 : Copies(l)[i] = (l = "row")
    /\ \A r \in CatalogReqs : creq[r].checked =>
          /\ creq[r].isSuper \in BOOLEAN
          /\ creq[r].isSuper =>
                creq[r].lookup = "row" /\ creq[r].body.user_id \in superusers
          /\ creq[r].lookup \in {"null", "error", "throw"} =>
                /\ ~ creq[r].isSuper
                /\ creq[r].pc = "done" /\ creq[r].status = 403 /\ ~ creq[r].err
    /\ \A r, q \in CatalogReqs :
          Refused(r) /\ Refused(q) /\ creq[r].body = creq[q].body =>
             [creq[r] EXCEPT !.lookup = "none"] = [creq[q] EXCEPT !.lookup = "none"]

\* the same request was refused twice with 403, once for an absent row or a returned
\* error and once for a lookup that threw
C9_Witness ==
    /\ Refused(1) /\ Refused(2)
    /\ creq[1].body = creq[2].body
    /\ creq[1].lookup \in {"null", "error"} /\ creq[2].lookup = "throw"
    /\ creq[1].status = 403 /\ creq[2].status = 403

\* ------------------------------------------------------------------ C10
\* C10: catalog entities are mutated only by administrators: every step that changes
\* categories, sizes, products, product_categories or product_sizes is a step of a request
\* whose user_id passed the permission check (the check returned true on a row of the
\* administrator table); a request whose check returned false is answered 403 in the step
\* of the check, which leaves the catalog tables unchanged, and makes no store call after.
C10_Act ==
    /\ catalog' # catalog =>
          \E r \in CatalogReqs :
             /\ creq'[r] # creq[r]
             /\ creq[r].checked /\ creq[r].isSuper
             /\ creq[r].lookup = "row" /\ creq[r].body.user_id \in superusers
    /\ \A r \in CatalogReqs :
          creq[r].pc = "idle" /\ creq'[r].checked /\ ~ creq'[r].isSuper =>
             creq'[r].status = 403 /\ catalog' = catalog
C10_Inv ==
    \A r \in CatalogReqs : Refused(r) =>
       /\ creq[r].pc = "done" /\ creq[r].status = 403
       /\ creq[r].calls = <<"superusers.select">>
C10_OnlyAdministratorsMutate == []C10_Inv /\ [][C10_Act]_vars

\* an administrator's request inserted a category and another user's request on the same
\* route was refused with 403
C10_Witness ==
    /\ categories # {}
    /\ \E r, q \in CatalogReqs :
          /\ creq[r].body.route = "categories.add" /\ creq[r].status = 201
          /\ creq[r].body.user_id \in superusers
          /\ creq[q].body.route = "categories.add" /\ Refused(q)
          /\ creq[q].body.user_id \notin superusers /\ creq[q].status = 403

\* ------------------------------------------------------------------ C14
\* a body with user_id and product_id whose quantity is absent or positive
WellFormed(b) ==
    b.user_id \in Users /\ b.product_id # Null /\ (b.quantity = <<>> \/ b.quantity[1] >= 1)
Add(b, outcome) == AddToCart(b.user_id, b.product_id, b.size_id, b.quantity, outcome)
SameProduct(l, b) ==
    l.user_id = b.user_id /\ l.product_id = b.product_id /\ l.size_id = b.size_id

C14_Act ==
    \A b \in AddBodies : Add(b, "ok") /\ WellFormed(b) =>
       /\ lastAdd'.status = 201
       /\ cart \subseteq cart'
       /\ Cardinality(cart') = Cardinality(cart) + 1
       /\ \A l \in cart' \ cart :
             SameProduct(l, b) /\ l.quantity = QuantityOrOne(b.quantity)
C14_Inv ==
    \A l \in cart : \E b \in AddBodies :
       WellFormed(b) /\ SameProduct(l, b) /\ l.quantity = QuantityOrOne(b.quantity)
\* C14: each successful POST /api/cart/add appends exactly one new cart line for the user
\* and leaves every existing line unchanged, also when a line of the same user, product and
\* size exists: every line keeps the quantity of the request that made it, none is merged.
C14_AddAppendsOneLine == []C14_Inv /\ [][C14_Act]_vars

\* two successful adds of the same product and size left two separate lines
C14_Witness ==
    /\ lastAdd.status = 201
    /\ \E l, m \in cart :
          /\ l.id # m.id /\ SameProduct(l, lastAdd.body) /\ SameProduct(m, lastAdd.body)
          /\ l.quantity = 2 /\ m.quantity = 2

\* ------------------------------------------------------------------ C16
NonPositive(b) == b.quantity # <<>> /\ b.quantity[1] <= 0
C16_Act ==
    \A b \in AddBodies : \A o \in StoreOutcomes :
       /\ Add(b, o) /\ NonPositive(b) => lastAdd'.status = 400 /\ cart' = cart
       /\ Add(b, o) /\ WellFormed(b) /\ b.quantity = <<>> /\ o = "ok" =>
             \A l \in cart' \ cart : l.quantity = 1
C16_Inv ==
    /\ \A l \in cart : l.quantity >= 1
    /\ \A oi \in orderitems : oi.quantity >= 1
    /\ NonPositive(lastAdd.body) => lastAdd.status = 400
\* C16: every cart line has quantity >= 1: an add with quantity <= 0 is rejected with 400
\* and inserts nothing, an add with no quantity inserts a line with quantity 1; so every
\* order item made by place-order has quantity >= 1.
C16_QuantityAtLeastOne == []C16_Inv /\ [][C16_Act]_vars

\* a request without quantity left a line with quantity 1 that became an order item, and a
\* request with quantity 0 was answered 400
C16_Witness ==
    /\ NonPositive(lastAdd.body) /\ lastAdd.status = 400
    /\ \E oi \in orderitems : oi.product_id = 7 /\ oi.quantity = 1
    /\ \E l \in cart : l.product_id = 7 /\ l.quantity = 1

\* ------------------------------------------------------------------ C19
StoreSteps == <<"cart.select", "orders.insert", "orderitems.insert", "cart.delete">>
C19_Inv ==
    \A r \in Reqs :
       LET n == Len(req[r].calls) IN
       /\ n <= 4 /\ req[r].calls = SubSeq(StoreSteps, 1, n)
       /\ n >= 2 => Len(req[r].cartItems) >= 1 /\ ~ req[r].cartError
       /\ n >= 3 => /\ ~ req[r].orderError
                    /\ \E o \in orders : o.id = req[r].orderId
       /\ n >= 4 => /\ ~ req[r].orderItemsError
                    /\ req[r].orderItemsData # <<>>
                    /\ Range(req[r].orderItemsData) \subseteq orderitems
C19_Act ==
    \A l \in cart : l \notin cart' =>
       \E r \in Reqs :
          /\ req[r].user_id = l.user_id
          /\ req[r].pc = "cart.delete" /\ req'[r].pc = "done"
          /\ req[r].orderItemsData # <<>>
          /\ Range(req[r].orderItemsData) \subseteq orderitems
\* C19: within one place-order run the four store steps happen in strict sequence, each
\* gated on the success of the one before: the order insert only after the cart read
\* returned at least one line, the order-items insert only after the order insert
\* succeeded, the cart delete only after the order-items insert succeeded; a user's cart is
\* never cleared by a run that did not insert order items.
C19_StepsInSequence == []C19_Inv /\ [][C19_Act]_vars

\* one run went through all four steps and cleared the cart, another stopped at a failed
\* order insert
C19_Witness ==
    \E r, q \in Reqs :
       /\ req[r].calls = StoreSteps /\ req[r].status = 201
       /\ \A l \in cart : l.user_id # req[r].user_id
       /\ req[q].calls = SubSeq(StoreSteps, 1, 2) /\ req[q].status = 500

\* ------------------------------------------------------------------ C20
Failed(r) ==
    \/ req[r].cartError \/ req[r].orderError \/ req[r].orderItemsError
    \/ req[r].clearCartError \/ req[r].err
C20_Inv ==
    \A r \in Reqs :
       /\ Len(req[r].calls) <= 4
       /\ \A i, j \in 1..Len(req[r].calls) : i # j => req[r].calls[i] # req[r].calls[j]
       /\ Failed(r) => req[r].pc = "done" /\ req[r].status \in {400, 500}
C20_Act == \A r \in Reqs : req[r].pc = "done" => req'[r] = req[r]
\* C20: no store operation is retried: each of the four store calls of a place-order run
\* is issued at most once, a failed step is followed by the error response and by no
\* further store call of that request, and every run reaches a response after at most four
\* store calls.
C20_NoRetry ==
    /\ []C20_Inv
    /\ [][C20_Act]_vars
    /\ \A r \in Reqs : (req[r].pc # "idle") ~> (req[r].pc = "done")

\* a run failed at its third store call and was answered 500 while a later run is under way
C20_Witness ==
    /\ req[1].orderItemsError /\ req[1].status = 500 /\ Len(req[1].calls) = 3
    /\ req[2].pc = "orderitems.insert"

\* ------------------------------------------------------------------ C18
\* the product is in products and, when a size is given, the product offers it
Legitimate(product_id, size_id) ==
    /\ \E p \in products : p.id = product_id
    /\ size_id # Null =>
          [product_id |-> product_id, size_id |-> size_id] \in product_sizes
C18_Act ==
    \A b \in AddBodies : Add(b, "ok") /\ WellFormed(b) =>
       /\ lastAdd'.status = 201
       /\ \E l \in cart' \ cart : l.product_id = b.product_id /\ l.size_id = b.size_id
C18_Inv ==
    \A oi \in orderitems : \E b \in AddBodies :
       WellFormed(b) /\ oi.product_id = b.product_id /\ oi.size_id = b.size_id
\* C18: the cart flow does not enforce product or size legitimacy: add-to-cart stores any
\* product_id and size_id of a well-formed request, whether or not products and
\* product_sizes hold them, and place-order copies them verbatim; so an order item whose
\* product is not in products is reachable (the witness).
C18_LegitimacyNotEnforced == []C18_Inv /\ [][C18_Act]_vars

\* two order items over the stocked catalog: one of a product that is in products, one of
\* a product that is not
C18_Witness ==
    /\ products # {}
    /\ \E oi \in orderitems : ~ Legitimate(oi.product_id, oi.size_id)
    /\ \E oi \in orderitems : Legitimate(oi.product_id, oi.size_id)

\* ------------------------------------------------------------------ C15
\* the request names no line of its user
NoSuchLine(d) == \A l \in cart : ~ (l.id = d.cart_item_id /\ l.user_id = d.user_id)
C15_Act ==
    /\ \A l \in cart : l \notin cart' =>
          \E r \in DeleteReqs :
             /\ dreq[r].pc = "cart.delete" /\ dreq'[r].status = 200
             /\ l.id = dreq[r].cart_item_id /\ l.user_id = dreq[r].user_id
             /\ cart' = cart \ {l}
    /\ \A r \in DeleteReqs :
          /\ dreq[r].pc = "idle" /\ dreq'[r].pc # "idle"
          /\ dreq'[r].calls # <<>>
          /\ NoSuchLine(dreq'[r])
          => /\ cart' = cart
             /\ dreq'[r].pc = "done"
             /\ dreq'[r].status = IF dreq'[r].err THEN 500 ELSE 404
C15_Inv ==
    \A r \in DeleteReqs :
       /\ dreq[r].pc = "cart.delete" =>
             /\ dreq[r].existingItem[1].id = dreq[r].cart_item_id
             /\ dreq[r].existingItem[1].user_id = dreq[r].user_id
       /\ dreq[r].status = 404 => dreq[r].calls = <<"cart.select">>
\* C15: DELETE /api/cart/delete with (user_id, cart_item_id) removes a cart line only if a
\* line with that id owned by that user was found, and then the delete removes that line
\* and no other; if no such line exists (also when the id is another user's line) the
\* answer is 404 (500 if the lookup rejects) and the cart is unchanged: no request deletes
\* another user's cart line.
C15_DeleteOwnLineOnly == []C15_Inv /\ [][C15_Act]_vars

\* u2 asked to delete line 1 of u1 and got 404; u1 asked the same and the line is gone
C15_Witness ==
    \E r, q \in DeleteReqs :
       /\ dreq[r].user_id = "u2" /\ dreq[r].cart_item_id = 1 /\ dreq[r].status = 404
       /\ dreq[q].user_id = "u1" /\ dreq[q].cart_item_id = 1 /\ dreq[q].status = 200
       /\ dreq[q].existingItem[1].user_id = "u1"
       /\ \A l \in cart : l.id # 1
       /\ cart # {}

\* ------------------------------------------------------------------ C11
\* an item without product_id, or with quantity missing or <= 0
ItemMalformed(item) ==
    item.product_id = Null \/ item.quantity = <<>> \/ item.quantity[1] <= 0
\* request r was answered 400 for malformed input: no user_id, no items, or the item the
\* loop stopped at is malformed
RejectedMalformed(r) ==
    /\ oreq[r].pc = "done" /\ oreq[r].status = 400
    /\ \/ oreq[r].user_id = Undefined
       \/ Len(oreq[r].items) = 0
       \/ oreq[r].i <= Len(oreq[r].items) /\ ItemMalformed(oreq[r].items[oreq[r].i])

\* C11: in POST /api/orders every validation error (missing user_id, empty items, an item
\* without product_id or with quantity missing or <= 0) is reported before any store
\* access: a request rejected for malformed input made no store call and created no order.
C11_ValidationBeforeStore ==
    \A r \in OrderReqs : RejectedMalformed(r) =>
       /\ oreq[r].calls = <<>>
       /\ \A o \in orders : o.id # oreq[r].orderId

\* ------------------------------------------------------------------ C12
ItemFound(item) ==
    /\ \E p \in products : p.id = item.product_id
    /\ item.size_id # Null =>
          [product_id |-> item.product_id, size_id |-> item.size_id] \in product_sizes
AllFound(r) == \A i \in 1..Len(oreq[r].items) : ItemFound(oreq[r].items[i])
Count(calls, c) == Len(SelectSeq(calls, LAMBDA x : x = c))
C12_Inv ==
    \A r \in OrderReqs :
       /\ oreq[r].pc = "orderitems.insert" \/ Count(oreq[r].calls, "orderitems.insert") > 0
          => /\ AllFound(r)
             /\ Count(oreq[r].calls, "products.select") = Len(oreq[r].items)
             /\ Count(oreq[r].calls, "product_sizes.select") =
                   Cardinality({i \in 1..Len(oreq[r].items) : oreq[r].items[i].size_id # Null})
       /\ oreq[r].orderId # Null /\ ~ AllFound(r)
          => \A oi \in orderitems : oi.order_id # oreq[r].orderId
C12_Act ==
    orderitems' # orderitems =>
       \E r \in OrderReqs :
          /\ oreq[r].pc = "orderitems.insert" /\ oreq'[r].status = 201
          /\ AllFound(r)
          /\ \A oi \in orderitems' \ orderitems : oi.order_id = oreq[r].orderId
\* C12: POST /api/orders validates every item before inserting order items: they are
\* inserted only if for every item of the request the product_id was found in products and,
\* when size_id is given, the pair (product_id, size_id) was found in product_sizes; if any
\* item fails the check, no order item of that request is inserted.
C12_ItemsCheckedBeforeInsert == []C12_Inv /\ [][C12_Act]_vars

\* one request was answered 404 at its second item and left an order without items,
\* another passed every lookup and its item was inserted
C12_Witness ==
    \E r, q \in OrderReqs :
       /\ oreq[r].status = 404 /\ oreq[r].i = 2 /\ oreq[r].formattedItems # <<>>
       /\ \E o \in orders : o.id = oreq[r].orderId
       /\ \A oi \in orderitems : oi.order_id # oreq[r].orderId
       /\ oreq[q].status = 201
       /\ \E oi \in orderitems : oi.order_id = oreq[q].orderId /\ oi.size_id = 3

\* ------------------------------------------------------------------ C13
C13_Act ==
    /\ \A o \in orders' :
          (\A p \in orders : p.id # o.id) => o.order_status = "Pending"
    /\ \A o \in orders : \A p \in orders' :
          o.id = p.id /\ o.order_status # p.order_status =>
             \E r \in StatusReqs :
                /\ sreq[r].pc = "idle" /\ sreq'[r].status = 200
                /\ sreq'[r].order_id = o.id /\ sreq'[r].newStatus = p.order_status
C13_Inv ==
    \A o \in orders : o.order_status # "Pending" =>
       \E r \in StatusReqs : sreq[r].order_id = o.id /\ sreq[r].status = 200
\* C13: every order row created by POST /api/cart/place-order or POST /api/orders has
\* order_status "Pending" at creation, and an order's status differs from "Pending" only
\* after a PUT /api/orders/status request for that order id.
C13_PendingAtCreation == []C13_Inv /\ [][C13_Act]_vars

\* an order of place-order and an order of POST /api/orders, both created pending; the
\* first was then set to "Shipped" by a status request
C13_Witness ==
    \E o, p \in orders :
       /\ o.id = req[1].orderId /\ o.order_status = "Shipped"
       /\ p.id = oreq[1].orderId /\ p.order_status = "Pending"
       /\ \E r \in StatusReqs : sreq[r].order_id = o.id /\ sreq[r].status = 200

\* ------------------------------------------------------------------ C17
C17_Act ==
    \A r \in StatusReqs : \A b \in StatusBodies :
       /\ UpdateOrderStatus(r, b, "ok")
       /\ b.status # ""
       /\ \E o \in orders : o.id = b.order_id
       => /\ sreq'[r].status = 200
          /\ \E o \in orders :
                /\ o.id = b.order_id
                /\ orders' = (orders \ {o}) \cup {[o EXCEPT !.order_status = b.status]}
          /\ orderitems' = orderitems
\* C17: the order status is free-form, with no state machine: PUT /api/orders/status with
\* an existing order_id and any non-empty status sets that order's order_status to the
\* given value from every current status, and changes no other order and no order item.
C17_StatusFreeForm == [][C17_Act]_vars

\* order 1 was set to "Shipped" and then back to "Pending", next to a second order
C17_Witness ==
    /\ sreq[1].order_id = 1 /\ sreq[1].newStatus = "Shipped" /\ sreq[1].status = 200
    /\ sreq[2].order_id = 1 /\ sreq[2].newStatus = "Pending" /\ sreq[2].status = 200
    /\ \E o \in orders : o.id = 1 /\ o.order_status = "Pending"
    /\ \E o \in orders : o.id = 2
    /\ orderitems # {}

\* ------------------------------------------------------------------ C21
\* C21: order items are immutable once created. No step of an add-to-cart, place-order,
\* POST /api/orders or status-update request removes a row of orderitems or changes one:
\* the table only grows, and an id names one row for ever.
C21_Act == orderitems \subseteq orderitems'
C21_Inv == \A a \in orderitems, b \in orderitems : a.id = b.id => a = b
C21_OrderItemsImmutable == []C21_Inv /\ [][C21_Act]_vars

\* the items of a placed cart and of a created order are both there after the cart was
\* cleared and an order's status was updated
C21_Witness ==
    /\ req[1].status = 201
    /\ oreq[1].status = 201
    /\ \E r \in StatusReqs : sreq[r].status = 200
    /\ Cardinality(orderitems) = 2

\* ------------------------------------------------------------------ C22
Read(r, l) == l \in Range(req[r].cartItems)
Ordered(r, l) == \E it \in ItemsOf(req[r].orderId) : Triple(it) = Triple(l)
Removed == cart \ cart'

\* C22 as stated: every cart line removed by the clear step of a place-order run appears
\* as an order item of the order that run created, also when an add-to-cart request of
\* the same user falls between the run's cart read and its cart clear.
C22_Stated ==
    \A r \in Reqs : Step(r, "cart.delete") =>
        \A l \in Removed : Read(r, l) /\ Ordered(r, l)
C22_NoLineDeletedUnordered == [][C22_Stated]_vars

\* C22 amended: every cart line removed by the clear step of a place-order run belongs to
\* the run's user, and every removed line that the run's cart read had returned appears as
\* an order item of the order that run created; a removed line that the read had not
\* returned was inserted after the read, and it is deleted without having been ordered.
C22_Act ==
    \A r \in Reqs : Step(r, "cart.delete") =>
        \A l \in Removed :
            /\ l.user_id = req[r].user_id
            /\ Read(r, l) => Ordered(r, l)
            /\ ~ Read(r, l) => \A c \in Range(req[r].cartItems) : c.id < l.id
C22_ClearRemovesUnreadLines == [][C22_Act]_vars

\* a run that read one line has cleared two: the second was added after the read and is
\* in no order
C22_Witness ==
    /\ req[1].status = 201
    /\ req[2].pc = "idle"
    /\ Len(req[1].cartItems) = 1
    /\ nextCartId = 3
    /\ cart = {}
    /\ Cardinality(orderitems) = 1

\* ------------------------------------------------------------------ C23
\* the order ids that the requests of both routes hold, one entry per request
OrderIds == [r \in Reqs |-> req[r].orderId] \o [r \in OrderReqs |-> oreq[r].orderId]

\* place-order run r created order o for its user and inserted item it from a line of
\* that user's cart
PlacedBy(r, o, it) ==
    /\ req[r].orderId = o.id
    /\ req[r].user_id = o.user_id
    /\ it \in Range(req[r].orderItemsData)
    /\ \E l \in Range(req[r].cartItems) : l.user_id = o.user_id /\ Triple(l) = Triple(it)

\* POST /api/orders request r created order o for its user and inserted item it
CreatedBy(r, o, it) ==
    /\ oreq[r].orderId = o.id
    /\ oreq[r].user_id = o.user_id
    /\ oreq[r].status = 201
    /\ \E i \in 1..Len(oreq[r].formattedItems) :
          /\ oreq[r].formattedItems[i].order_id = it.order_id
          /\ Triple(oreq[r].formattedItems[i]) = Triple(it)

\* C23: referential integrity of order items. In every reachable state each order item's
\* order_id is the id of an existing order, created by the request that inserted the item
\* (for place-order: for the user whose cart lines were copied), and no two requests hold
\* the same order id, so no request attaches items to the order of another.
C23_ReferentialIntegrity ==
    /\ \A it \in orderitems :
          \E o \in orders :
             /\ o.id = it.order_id
             /\ \/ \E r \in Reqs : PlacedBy(r, o, it)
                \/ \E r \in OrderReqs : CreatedBy(r, o, it)
    /\ \A i \in DOMAIN OrderIds, j \in DOMAIN OrderIds :
          i # j /\ OrderIds[i] # Null => OrderIds[i] # OrderIds[j]

\* two place-order runs and two POST /api/orders requests of different users have all
\* inserted items, each into its own order
C23_Witness ==
    /\ \A r \in Reqs : req[r].status = 201
    /\ \A r \in OrderReqs : oreq[r].status = 201
    /\ req[1].user_id # req[2].user_id
    /\ oreq[1].user_id # oreq[2].user_id
    /\ Cardinality({it.order_id : it \in orderitems}) = 4

\* ------------------------------------------------------------------ C24
\* the copy of the check a request ran: 1 order, 2 product, 3 size, 4 category
CopyOf(route) ==
    CASE route \in {"categories.add", "categories.delete"} -> 4
      [] route \in {"sizes.add", "sizes.delete"} -> 3
      [] OTHER -> 2

\* C24: the four copies of the superuser check (order, product, size and category
\* modules) are equivalent: on each outcome of the superusers lookup (a row without error,
\* an error, neither row nor error, an exception) all four return the same boolean, and
\* requests that ran different copies on the same outcome got the same answer.
C24_CopiesEquivalent ==
    /\ \A l \in Lookups : \A i \in 1..4, j \in 1..4 : Copies(l)[i] = Copies(l)[j]
    /\ \A r \in CatalogReqs, q \in CatalogReqs :
          creq[r].checked /\ creq[q].checked /\ creq[r].lookup = creq[q].lookup =>
             /\ creq[r].isSuper = creq[q].isSuper
             /\ creq[r].isSuper = Copies(creq[r].lookup)[CopyOf(creq[q].body.route)]

\* the size router's copy and the product router's copy both ran on a lookup that
\* returned neither a row nor an error, where their texts differ (superuser !== null
\* against !superuser), and both refused
C24_Witness ==
    /\ creq[1].checked /\ creq[2].checked
    /\ {CopyOf(creq[1].body.route), CopyOf(creq[2].body.route)} = {2, 3}
    /\ creq[1].lookup = "null" /\ creq[2].lookup = "null"
    /\ ~ creq[1].isSuper /\ ~ creq[2].isSuper

\* ------------------------------------------------------------------ C25
\* request r, an administrator's POST /api/products/add without category ids, was
\* answered 'At least one category ID is required.': the 400 after the products insert
RejectedForCategories(r) ==
    /\ creq[r].body.route = "products.add"
    /\ creq[r].isSuper
    /\ Ids(creq[r].body.category_ids) = <<>>
    /\ creq[r].pc = "done" /\ creq[r].status = 400
    /\ creq[r].imageUrls > 0

\* C25: a POST /api/products/add by a superuser that is rejected with 'At least one
\* category ID is required.' leaves the products table unchanged: the request made no
\* products insert, and no product row without a product_categories link is left by it.
C25_RejectedAddLeavesProducts ==
    \A r \in CatalogReqs : RejectedForCategories(r) =>
        /\ \A i \in 1..Len(creq[r].calls) : creq[r].calls[i] # "products.insert"
        /\ \A p \in products :
              p.id = creq[r].productId =>
                 \E l \in product_categories : l.product_id = p.id

\* ------------------------------------------------------------------ C26
\* the finished updates of product 5 that supplied the list `field`
Supplied(field) ==
    {r \in CatalogReqs : /\ creq[r].body.route = "products.update"
                         /\ creq[r].body.id = 5
                         /\ Present(creq[r].body[field])}
AllAnswered200(R) == R # {} /\ \A r \in R : creq[r].pc = "done" /\ creq[r].status = 200
CategoryLinks(product_id) ==
    {l.category_id : l \in {k \in product_categories : k.product_id = product_id}}
SizeLinks(product_id) ==
    {l.size_id : l \in {k \in product_sizes : k.product_id = product_id}}

\* C26: when the PUT /api/products/update requests that supply category_ids (size_ids) for
\* the same product have all responded 200, the product's set of category (size) links
\* equals exactly the list supplied by one of them, under every interleaving of their
\* delete-then-insert steps.
C26_LinksFromOneRequest ==
    /\ AllAnswered200(Supplied("category_ids")) =>
          \E r \in Supplied("category_ids") :
             CategoryLinks(5) = Range(Ids(creq[r].body.category_ids))
    /\ AllAnswered200(Supplied("size_ids")) =>
          \E r \in Supplied("size_ids") :
             SizeLinks(5) = Range(Ids(creq[r].body.size_ids))

\* the union of the lists that the requests of R supplied
ListsOf(R, field) == UNION {Range(Ids(creq[r].body[field])) : r \in R}

\* C26 amended: when the PUT /api/products/update requests that supply category_ids
\* (size_ids) for the same product have all responded 200, the product's set of category
\* (size) links is the union of the lists of one or more of those requests; the insert of
\* a request leaves its list among the links, and leaves exactly its list when no link of
\* the product was there, that is when no other request's insert came after its delete.
C26_Inv ==
    /\ AllAnswered200(Supplied("category_ids")) =>
          \E R \in SUBSET Supplied("category_ids") :
             R # {} /\ CategoryLinks(5) = ListsOf(R, "category_ids")
    /\ AllAnswered200(Supplied("size_ids")) =>
          \E R \in SUBSET Supplied("size_ids") :
             R # {} /\ SizeLinks(5) = ListsOf(R, "size_ids")
C26_Act ==
    \A r \in CatalogReqs :
        /\ SetCategories(r, "ok") =>
              /\ Range(Ids(creq[r].body.category_ids)) \subseteq CategoryLinks(5)'
              /\ CategoryLinks(5) = {} =>
                    CategoryLinks(5)' = Range(Ids(creq[r].body.category_ids))
        /\ SetSizes(r, "ok") =>
              /\ Range(Ids(creq[r].body.size_ids)) \subseteq SizeLinks(5)'
              /\ SizeLinks(5) = {} => SizeLinks(5)' = Range(Ids(creq[r].body.size_ids))
        /\ ClearCategories(r, "ok") => CategoryLinks(5)' = {}
        /\ ClearSizes(r, "ok") => SizeLinks(5)' = {}
C26_LinksFromSomeRequests == []C26_Inv /\ [][C26_Act]_vars

\* two updates with the size lists [3] and [4] were both answered 200 and the product is
\* left with both sizes
C26_Witness ==
    /\ AllAnswered200(Supplied("size_ids"))
    /\ SizeLinks(5) = {3, 4}
    /\ \A r \in Supplied("size_ids") : Range(Ids(creq[r].body.size_ids)) # {3, 4}

\* ------------------------------------------------------------------ C27
\* request r was answered 200 after its OTP check accepted a stored record
Accepted(r) == areq[r].pc = "done" /\ areq[r].status = 200 /\ areq[r].otpRecord # <<>>

\* C27: an OTP record is single-use. Each stored OTP is accepted by at most one
\* verifyEmailWithOTP or resetPasswordWithOTP request: no two requests, one after the
\* other or concurrent, are answered 200 on the same record.
C27_OtpSingleUse ==
    \A r \in OtpReqs, q \in OtpReqs :
        r # q /\ Accepted(r) /\ Accepted(q) => areq[r].otpRecord[1].id # areq[q].otpRecord[1].id

\* request r takes its first step, the select of the stored OTP
Selects(r) == areq[r].pc = "idle" /\ areq'[r].pc # "idle"

\* C27 amended: an OTP record is accepted only while it is stored, and the delete that
\* ends an accepting request removes exactly that record when it succeeds; ids are not
\* reused, so no request whose select runs after the removal is accepted on the record.
\* Requests whose select ran before the removal (concurrent ones), or after a delete that
\* returned an error (answered 200 all the same), are accepted on the same record.
C27_Act ==
    /\ \A r \in OtpReqs :
          /\ Selects(r) /\ areq'[r].otpRecord # <<>> => areq'[r].otpRecord[1] \in otps
          /\ DeleteOtp(r, "ok") => otps' = otps \ {areq[r].otpRecord[1]}
          /\ DeleteOtp(r, "error") => otps' = otps /\ areq'[r].status = 200
    /\ \A o \in otps' \ otps :
          /\ \A q \in otps : q.id < o.id
          /\ \A r \in OtpReqs : areq[r].otpRecord # <<>> => areq[r].otpRecord[1].id < o.id
C27_OtpAcceptedWhileStored == [][C27_Act]_vars

\* two requests were answered 200 on the same record, which is deleted
C27_Witness ==
    /\ Accepted(1) /\ Accepted(2)
    /\ areq[1].otpRecord = areq[2].otpRecord
    /\ areq[1].otpRecord[1] \notin otps

\* ------------------------------------------------------------------ C30
Last(calls) == calls[Len(calls)]

\* verifyEmailWithOTP request r accepted an OTP and its update of user u succeeded
VerifiedBy(r, u) ==
    /\ areq[r].kind = "verifyEmail"
    /\ ToLowerCase(areq[r].email) = ToLowerCase(u.email)
    /\ areq[r].otpRecord # <<>>
    /\ areq[r].user = u.id
    /\ \/ areq[r].pc = "otps.delete"
       \/ areq[r].pc = "done" /\ Last(areq[r].calls) = "otps.delete"

\* request r was answered with a failure
AnsweredFailure(r) == areq[r].pc = "done" /\ areq[r].status # 200

\* the user the last login gave a token to
LoggedIn == {u \in authUsers : lastLogin.status = 200 /\ u.id = lastLogin.token}

\* login answers 200 with a token only if the provider accepted the credentials and the
\* user is confirmed and verified
LoginGate ==
    lastLogin.status = 200 =>
        /\ lastLogin.accepted
        /\ LoggedIn # {}
        /\ \A u \in LoggedIn :
              /\ u.email = ToLowerCase(lastLogin.email)
              /\ u.password = lastLogin.password
              /\ u.email_confirmed /\ u.email_verified

\* C30 as stated: login issues a token only to a verified user, and every successful
\* login of a user is preceded by a successful verifyEmailWithOTP for that user's email
\* (one that was not answered with a failure).
C30_LoginAfterSuccessfulVerify ==
    /\ LoginGate
    /\ \A u \in LoggedIn : \E r \in OtpReqs : VerifiedBy(r, u) /\ ~ AnsweredFailure(r)

\* C30 amended: login issues a token only to a verified user, and every successful login
\* of a user is preceded by a verifyEmailWithOTP request for that user's email that
\* accepted an OTP and whose update of the user succeeded; that request is answered 200
\* unless its final delete of the OTP throws, and then it is answered 500 although the
\* user is verified. No user is verified or confirmed in another way.
C30_LoginAfterVerifyingUpdate ==
    /\ LoginGate
    /\ \A u \in authUsers :
          u.email_verified \/ u.email_confirmed =>
             /\ u.email_verified /\ u.email_confirmed
             /\ \E r \in OtpReqs :
                   /\ VerifiedBy(r, u)
                   /\ AnsweredFailure(r) => areq[r].status = 500 /\ areq[r].err

\* a token was issued to a user whose only verification was answered 500
C30_Witness ==
    /\ lastLogin.status = 200
    /\ \A u \in LoggedIn : \A r \in OtpReqs : VerifiedBy(r, u) => AnsweredFailure(r)

\* ------------------------------------------------------------------ C28
PurposeOf(kind) == IF kind = "verifyEmail" THEN "email_verification" ELSE "password_reset"
\* the email a handler looks the OTP up by
KeyOf(me) == IF me.kind = "verifyEmail" THEN me.email ELSE ToLowerCase(me.email)
\* the stored records of the request's email and purpose, and the newest of them
RecordsFor(me) == {o \in otps : o.email = KeyOf(me) /\ o.purpose = PurposeOf(me.kind)}
Newest(me) == {o \in RecordsFor(me) : \A q \in RecordsFor(me) : q.expires_at <= o.expires_at}
\* the code of the request is the otp of a newest record that has not expired
Acceptable(me) == \E o \in Newest(me) : o.otp = me.otp /\ now <= o.expires_at

\* C28: only the newest OTP of the matching purpose is accepted. verifyEmailWithOTP
\* (resetPasswordWithOTP) accepts a code only if it is the otp of the record with the
\* greatest expires_at among the email's records of purpose email_verification
\* (password_reset) and that record has not expired; any other code, such as one issued
\* for the other purpose or an older unexpired one of the same purpose, is rejected with
\* 400 (500 when the select itself throws) in a step that changes neither the users nor
\* the otps table, and the request makes no further step.
C28_Act ==
    \A r \in OtpReqs :
        /\ Selects(r) =>
              /\ areq'[r].pc = "auth.listUsers" =>
                    /\ Acceptable(areq'[r])
                    /\ areq'[r].otpRecord[1] \in Newest(areq'[r])
                    /\ areq'[r].otpRecord[1].otp = areq'[r].otp
              /\ ~ Acceptable(areq'[r]) =>
                    /\ areq'[r].pc = "done"
                    /\ areq'[r].status = 400 \/ (areq'[r].status = 500 /\ areq'[r].err)
                    /\ areq'[r].calls = <<"otps.select">>
              /\ authUsers' = authUsers /\ otps' = otps
        /\ areq[r].pc = "done" => areq'[r] = areq[r]
RoundTrip(e, c) ==
    /\ UserOf(e) # {}
    /\ \E i \in IssueReqs, o \in otps :
          /\ ireq[i].kind = "requestOTP" /\ ireq[i].email = e /\ ireq[i].otp = c
          /\ o.email = e /\ o.otp = c /\ o.purpose = "password_reset"
          /\ o.expires_at = ireq[i].expiresAt
          /\ now <= o.expires_at
          /\ \A q \in otps :
                q # o /\ q.purpose = "password_reset" /\ ToLowerCase(q.email) = ToLowerCase(e)
                   => q.expires_at < o.expires_at

\* C29: password-reset round trip. For every email string E of an existing user, also one
\* with upper-case letters, the code stored by requestOTPForPasswordReset(E) and presented
\* unexpired with the same E to resetPasswordWithOTP is found and accepted, when no newer
\* password_reset OTP was issued for E and no external call fails.
C29_Act ==
    \A r \in OtpReqs, e \in Emails, c \in Codes, p \in Passwords :
        ResetPasswordWithOTP(r, e, c, p, "ok") /\ RoundTrip(e, c) =>
            /\ areq'[r].pc = "auth.listUsers"
            /\ areq'[r].otpRecord # <<>>
            /\ areq'[r].otpRecord[1].otp = c
C29_ResetRoundTrip == [][C29_Act]_vars
====
